---------------------------- MODULE Spec2Model ----------------------------
(***************************************************************************)
(* Model of the PDF invoice parsing engine of ShopifyFWNAutomation:        *)
(*   app/services/pdfParsing.server.ts   (orchestrator, Line Assembler,    *)
(*                                        parser selection, strategies)   *)
(*   app/services/pythonTableParser.server.ts (table interpreter; its     *)
(*                                        text is in PDF_PARSING_README)  *)
(*                                                                         *)
(* Text is modelled by TLA+ strings; a character of s is SubSeq(s, i, i).  *)
(* Optional fields (data?, error?, warnings?, invoiceDate?) are modelled   *)
(* as sequences of length at most one: None is "undefined".                *)
(***************************************************************************)
EXTENDS Integers, Sequences, FiniteSets, TLC

VARIABLES
    pc,                \* position of the call being modelled
    supplierName,      \* argument of parseInvoiceFromPdf / selectParser
    usePythonParser,   \* argument of parseInvoiceFromPdf
    calls,             \* the backends invoked by the call, in order
    pythonResult,      \* what pythonParser.parse resolved to (None before)
    extractionResult,  \* what extractStructuredText resolved to (None before)
    parser,            \* the strategy selectParser returned (None before)
    parseResult,       \* what parser.parse resolved to (None before)
    result,            \* what the call resolved to (None before)
    pdfData,           \* the runs pdf2json delivered, in document order
    textLines,         \* lines handed to a strategy
    priceText,         \* token handed to the price normalizers
    prices,            \* what each price normalizer returned (None before)
    scan,              \* a strategy's loop over the lines: position, items, pending text
    tables,            \* the tables handed to the table interpreter
    invoice,           \* the invoice record processInvoicePdf works on
    procs              \* the calls in flight when several calls interleave

vars == <<pc, supplierName, usePythonParser, calls, pythonResult,
          extractionResult, parser, parseResult, result, pdfData, textLines,
          priceText, prices, scan, tables, invoice, procs>>

\* the variables only the row-level, invoice-level and interleaving
\* specifications use
laterVars == <<scan, tables, invoice, procs>>

---------------------------------------------------------------------------
(* Bounds of the model *)

\* supplier names are concatenations of at most this many fragments
MaxNameParts == 2
\* a backend reports at most this many line items
MaxItems == 2
\* the Line Assembler is given at most this many runs
MaxRuns == 2
\* a strategy is given at most this many lines
MaxLines == 2
\* the integer part of a generated price token has at most this many digits
MaxIntDigits == 2

---------------------------------------------------------------------------
(* Optional values *)

None == <<>>
Some(x) == <<x>>

---------------------------------------------------------------------------
(* String primitives of the JavaScript runtime used by the code *)

UpperAlpha == "ABCDEFGHIJKLMNOPQRSTUVWXYZ"
LowerAlpha == "abcdefghijklmnopqrstuvwxyz"

CharAt(s, i) == SubSeq(s, i, i)

\* s.substring(i - 1, j): the characters i..j of s, as far as s reaches
Substring(s, i, j) == SubSeq(s, i, IF j > Len(s) THEN Len(s) ELSE j)

IsDigit(c) == c \in {"0", "1", "2", "3", "4", "5", "6", "7", "8", "9"}

\* \s of the regular expressions, and the characters String.prototype.trim strips
IsSpace(c) == c \in {" ", "\t", "\n"}

\* the lower-case letter of every upper-case letter
LowerOf ==
    [c \in {CharAt(UpperAlpha, i) : i \in 1..Len(UpperAlpha)} |->
        CharAt(LowerAlpha, CHOOSE i \in 1..Len(UpperAlpha) : CharAt(UpperAlpha, i) = c)]

LowerChar(c) == IF c \in DOMAIN LowerOf THEN LowerOf[c] ELSE c

RECURSIVE toLowerCase(_)
toLowerCase(s) ==
    IF s = "" THEN ""
    ELSE LowerChar(CharAt(s, 1)) \o toLowerCase(SubSeq(s, 2, Len(s)))

RECURSIVE trimStart(_)
trimStart(s) ==
    IF s # "" /\ IsSpace(CharAt(s, 1)) THEN trimStart(SubSeq(s, 2, Len(s))) ELSE s

RECURSIVE trimEnd(_)
trimEnd(s) ==
    IF s # "" /\ IsSpace(CharAt(s, Len(s))) THEN trimEnd(SubSeq(s, 1, Len(s) - 1)) ELSE s

trim(s) == trimEnd(trimStart(s))

\* String.prototype.includes
includes(s, frag) ==
    \E i \in 0..(Len(s) - Len(frag)) : SubSeq(s, i + 1, i + Len(frag)) = frag

startsWith(s, frag) ==
    Len(s) >= Len(frag) /\ SubSeq(s, 1, Len(frag)) = frag

\* String.prototype.lastIndexOf for a one-character needle, 0-based, -1 when absent
lastIndexOf(s, c) ==
    IF \E i \in 1..Len(s) : CharAt(s, i) = c
    THEN (CHOOSE i \in 1..Len(s) :
              /\ CharAt(s, i) = c
              /\ \A j \in (i + 1)..Len(s) : CharAt(s, j) # c) - 1
    ELSE -1

\* s with every character satisfying Drop removed: s.replace(/[...]/g, "")
RECURSIVE removeChars(_, _)
removeChars(s, drop) ==
    IF s = "" THEN ""
    ELSE (IF CharAt(s, 1) \in drop THEN "" ELSE CharAt(s, 1))
         \o removeChars(SubSeq(s, 2, Len(s)), drop)

\* s.replace(c, r) with a string pattern: only the first occurrence is replaced
replaceFirst(s, c, r) ==
    IF \E i \in 1..Len(s) : CharAt(s, i) = c
    THEN LET i == CHOOSE i \in 1..Len(s) :
                      /\ CharAt(s, i) = c
                      /\ \A j \in 1..(i - 1) : CharAt(s, j) # c
         IN  SubSeq(s, 1, i - 1) \o r \o SubSeq(s, i + 1, Len(s))
    ELSE s

\* s.split(c) for a one-character separator (or a one-character class)
RECURSIVE split(_, _)
split(s, seps) ==
    IF \E i \in 1..Len(s) : CharAt(s, i) \in seps
    THEN LET i == CHOOSE i \in 1..Len(s) :
                      /\ CharAt(s, i) \in seps
                      /\ \A j \in 1..(i - 1) : CharAt(s, j) \notin seps
         IN  <<SubSeq(s, 1, i - 1)>> \o split(SubSeq(s, i + 1, Len(s)), seps)
    ELSE <<s>>

\* parts.join(sep)
RECURSIVE join(_, _)
join(parts, sep) ==
    IF Len(parts) = 0 THEN ""
    ELSE IF Len(parts) = 1 THEN parts[1]
    ELSE parts[1] \o sep \o join(Tail(parts), sep)

AllDigits(s) == \A i \in 1..Len(s) : IsDigit(CharAt(s, i))

DigitVal(c) ==
    CHOOSE d \in 0..9 : CharAt("0123456789", d + 1) = c

\* parseInt(s, 10) of a non-empty string of digits
RECURSIVE parseInt(_)
parseInt(s) ==
    IF s = "" THEN 0
    ELSE parseInt(SubSeq(s, 1, Len(s) - 1)) * 10 + DigitVal(CharAt(s, Len(s)))

---------------------------------------------------------------------------
(* Result envelopes: PdfExtractionResult and ParsedInvoiceData *)

\* { success: false, error }
Fail(msg) ==
    [success |-> FALSE, data |-> None, error |-> Some(msg), warnings |-> None]

\* { success: true, data, warnings }
Ok(data, warnings) ==
    [success |-> TRUE, data |-> Some(data), error |-> None, warnings |-> warnings]

\* the ParsedInvoiceData every backend starts from
EmptyInvoiceData ==
    [supplierInfo    |-> None,
     invoiceMetadata |-> [currency |-> "EUR", shippingFee |-> 0, invoiceDate |-> None],
     lineItems       |-> <<>>,
     rawText         |-> None]

\* n line items; money is in cents
LineItems(n) ==
    [i \in 1..n |-> [supplierSku |-> "SKU", quantity |-> i,
                     unitPrice |-> 100, total |-> 100 * i]]

\* what "error instanceof Error ? error.message : fallback" evaluates to
ErrorMessage(thrown, fallback) ==
    IF thrown.isError THEN thrown.message ELSE fallback

\* values a throw inside a backend can carry: an Error of the runtime, or any
\* other value
Thrown ==
    {[isError |-> TRUE,  message |-> "Cannot read properties of undefined"],
     [isError |-> FALSE, message |-> ""]}

---------------------------------------------------------------------------
(* Text Extractor and Line Assembler: extractStructuredText *)

\* coordinates are integers counting quarters of a unit; 0.5 is 2
tolerance == 2

\* Math.round(num / den): the nearest integer, a tie going up
MathRound(num, den) == (2 * num + den) \div (2 * den)

\* the grouping key with Math.floor for Math.round
roundedY_floor(y) == (y \div tolerance) * tolerance

\* Math.round(item.y / tolerance) * tolerance
roundedY(y) == MathRound(y, tolerance) * tolerance

\* decodeURIComponent on the escapes the runs use; Malformed stands for the
\* URIError it throws on a "%" that starts no escape
Malformed == "URI malformed"

Escapes == {<<"%20", " ">>, <<"%2C", ",">>, <<"%2F", "/">>}

RECURSIVE decodeURIComponent(_)
decodeURIComponent(s) ==
    IF s = "" THEN ""
    ELSE IF CharAt(s, 1) = "%"
         THEN IF \E e \in Escapes : e[1] = Substring(s, 1, 3)
              THEN LET e    == CHOOSE e \in Escapes : e[1] = Substring(s, 1, 3)
                       rest == decodeURIComponent(SubSeq(s, 4, Len(s)))
                   IN  IF rest = Malformed THEN Malformed ELSE e[2] \o rest
              ELSE Malformed
         ELSE LET rest == decodeURIComponent(SubSeq(s, 2, Len(s)))
              IN  IF rest = Malformed THEN Malformed ELSE CharAt(s, 1) \o rest

\* an assembler that keeps the pages apart: the y of a run counts from the
\* top of the first page
RECURSIVE collectTexts_paged(_)
collectTexts_paged(runs) ==
    IF Len(runs) = 0 THEN <<>>
    ELSE (IF trim(decodeURIComponent(runs[1].T)) # ""
          THEN <<[x |-> runs[1].x, y |-> runs[1].y + 1000 * (runs[1].page - 1),
                  text |-> decodeURIComponent(runs[1].T), page |-> runs[1].page]>>
          ELSE <<>>)
         \o collectTexts_paged(Tail(runs))

\* the forEach over pages, text blocks and runs: every run whose decoded text is
\* not blank, in document order (runs is the flat list of runs, each with the
\* page and the x, y of its text block and its raw text T)
RECURSIVE collectTexts(_)
collectTexts(runs) ==
    IF Len(runs) = 0 THEN <<>>
    ELSE LET run         == runs[1]
             decodedText == decodeURIComponent(run.T)
         IN  (IF trim(decodedText) # ""
              THEN <<[x |-> run.x, y |-> run.y, text |-> decodedText, page |-> run.page]>>
              ELSE <<>>)
             \o collectTexts(Tail(runs))

\* Array.prototype.sort((a, b) => a.x - b.x): stable, by insertion
RECURSIVE insertByX(_, _)
insertByX(sorted, item) ==
    IF Len(sorted) = 0 THEN <<item>>
    ELSE IF sorted[Len(sorted)].x <= item.x THEN Append(sorted, item)
    ELSE Append(insertByX(SubSeq(sorted, 1, Len(sorted) - 1), item), sorted[Len(sorted)])

RECURSIVE sortByX(_)
sortByX(items) ==
    IF Len(items) = 0 THEN <<>>
    ELSE insertByX(sortByX(SubSeq(items, 1, Len(items) - 1)), items[Len(items)])

\* lineGroups[key]: the runs whose y rounds to key, in insertion order
lineGroup(texts, key) ==
    LET RECURSIVE pick(_)
        pick(ts) == IF Len(ts) = 0 THEN <<>>
                    ELSE (IF roundedY(ts[1].y) = key THEN <<ts[1]>> ELSE <<>>)
                         \o pick(Tail(ts))
    IN  pick(texts)

RECURSIVE itemTexts(_)
itemTexts(items) ==
    IF Len(items) = 0 THEN <<>> ELSE <<items[1].text>> \o itemTexts(Tail(items))

\* the text of a line: its sorted runs' texts joined by " ", then trimmed
lineText(items) == trim(join(itemTexts(items), " "))

\* one entry of Object.keys(lineGroups).map(...)
makeLine(texts, key) ==
    LET items == sortByX(lineGroup(texts, key))
    IN  [yPosition |-> key, items |-> items, text |-> lineText(items)]

\* a finite set of integers as an ascending sequence: .sort((a, b) => a.yPosition - b.yPosition)
RECURSIVE ascending(_)
ascending(S) ==
    IF S = {} THEN <<>>
    ELSE LET m == CHOOSE m \in S : \A n \in S : m <= n
         IN  <<m>> \o ascending(S \ {m})

\* group by rounded y, build the lines, drop the empty ones, sort by yPosition
assembleLines(texts) ==
    LET keys  == {roundedY(texts[i].y) : i \in 1..Len(texts)}
        kept  == {k \in keys : Len(makeLine(texts, k).text) > 0}
        order == ascending(kept)
    IN  [i \in 1..Len(order) |-> makeLine(texts, order[i])]

\* what the promise of extractStructuredText resolves to, by the event pdf2json
\* emits: pdfParser_dataError, or pdfParser_dataReady with the runs of the PDF
extractStructuredText(event) ==
    IF event.name = "pdfParser_dataError"
    THEN [success |-> FALSE, textLines |-> None,
          error |-> Some(IF event.parserError # "" THEN event.parserError
                         ELSE "PDF parsing failed")]
    ELSE IF \E i \in 1..Len(event.pdfData) :
                decodeURIComponent(event.pdfData[i].T) = Malformed
         THEN [success |-> FALSE, textLines |-> None, error |-> Some(Malformed)]
         ELSE [success |-> TRUE,
               textLines |-> Some(assembleLines(collectTexts(event.pdfData))),
               error |-> None]

---------------------------------------------------------------------------
(* Parser selection *)

\* forcePythonParser without its last disjunct
forcePythonParser_withoutRabeko(name) ==
    \/ includes(toLowerCase(name), "yamamoto")
    \/ includes(toLowerCase(name), "iaf")
    \/ includes(toLowerCase(name), "swanson")

\* const forcePythonParser = ... in parseInvoiceFromPdf
forcePythonParser(name) ==
    \/ includes(toLowerCase(name), "yamamoto")
    \/ includes(toLowerCase(name), "iaf")
    \/ includes(toLowerCase(name), "swanson")
    \/ includes(toLowerCase(name), "rabeko")

\* selectParser with the Addict test moved to the front
selectParser_addictFirst(name) ==
    LET normalizedName == trim(toLowerCase(name))
    IN  IF includes(normalizedName, "addict") THEN "AddictParser"
        ELSE IF includes(normalizedName, "yamamoto") \/ includes(normalizedName, "iaf")
        THEN "YamamotoParser"
        ELSE IF includes(normalizedName, "bolero")  THEN "BoleroParser"
        ELSE IF includes(normalizedName, "swanson") THEN "SwansonParser"
        ELSE IF includes(normalizedName, "maiavie") THEN "MaiavieParser"
        ELSE "GenericParser"

\* the class of the strategy selectParser returns
selectParser(name) ==
    LET normalizedName == trim(toLowerCase(name))
    IN  IF includes(normalizedName, "yamamoto") \/ includes(normalizedName, "iaf")
        THEN "YamamotoParser"
        ELSE IF includes(normalizedName, "bolero")  THEN "BoleroParser"
        ELSE IF includes(normalizedName, "swanson") THEN "SwansonParser"
        ELSE IF includes(normalizedName, "maiavie") THEN "MaiavieParser"
        ELSE IF includes(normalizedName, "addict")  THEN "AddictParser"
        ELSE "GenericParser"

---------------------------------------------------------------------------
(* Generic strategy *)

IsDateSep(c) == c \in {"/", "-", "."}

\* /(\d{1,2})[\/\-\.](\d{1,2})[\/\-\.](\d{4})/ tried at 1-based position i with
\* a day of l1 digits and a month of l2 digits
dateMatchesAt(s, i, l1, l2) ==
    /\ i + l1 + l2 + 5 <= Len(s)
    /\ AllDigits(SubSeq(s, i, i + l1 - 1))
    /\ IsDateSep(CharAt(s, i + l1))
    /\ AllDigits(SubSeq(s, i + l1 + 1, i + l1 + l2))
    /\ IsDateSep(CharAt(s, i + l1 + l2 + 1))
    /\ AllDigits(SubSeq(s, i + l1 + l2 + 2, i + l1 + l2 + 5))

\* the lengths the greedy quantifiers try, in backtracking order
DateLengths == <<<<2, 2>>, <<2, 1>>, <<1, 2>>, <<1, 1>>>>

\* text.match(...) of the generic date pattern: None, or the three groups of
\* the leftmost match
genericDateMatch(s) ==
    LET hits(i) == {k \in 1..Len(DateLengths) :
                        dateMatchesAt(s, i, DateLengths[k][1], DateLengths[k][2])}
    IN  IF \E i \in 1..Len(s) : hits(i) # {}
        THEN LET i  == CHOOSE i \in 1..Len(s) :
                           hits(i) # {} /\ \A j \in 1..(i - 1) : hits(j) = {}
                 k  == CHOOSE k \in hits(i) : \A m \in hits(i) : k <= m
                 l1 == DateLengths[k][1]
                 l2 == DateLengths[k][2]
             IN  Some([day   |-> SubSeq(s, i, i + l1 - 1),
                       month |-> SubSeq(s, i + l1 + 1, i + l1 + l2),
                       year  |-> SubSeq(s, i + l1 + l2 + 2, i + l1 + l2 + 5)])
        ELSE None

\* new Date(`${year}-${month}-${day}`), kept as the string it is built from
newDate(m) == m.year \o "-" \o m.month \o "-" \o m.day

\* the loop without its break and its "not yet set" test: the last match wins
RECURSIVE genericInvoiceDate_lastMatch(_)
genericInvoiceDate_lastMatch(lines) ==
    IF Len(lines) = 0 THEN None
    ELSE LET dateMatch == genericDateMatch(lines[Len(lines)].text)
         IN  IF dateMatch # None THEN Some(newDate(dateMatch[1]))
             ELSE genericInvoiceDate_lastMatch(SubSeq(lines, 1, Len(lines) - 1))

\* the loop of GenericParser.parse: the date of the first line that matches
RECURSIVE genericInvoiceDate(_)
genericInvoiceDate(lines) ==
    IF Len(lines) = 0 THEN None
    ELSE LET dateMatch == genericDateMatch(lines[1].text)
         IN  IF dateMatch # None THEN Some(newDate(dateMatch[1]))
             ELSE genericInvoiceDate(Tail(lines))

\* textLines.map((line) => line.text)
RECURSIVE lineTexts(_)
lineTexts(lines) ==
    IF Len(lines) = 0 THEN <<>> ELSE <<lines[1].text>> \o lineTexts(Tail(lines))

\* nothing in the try block throws on a list of TextLines (an unparseable date
\* string gives an Invalid Date, not an exception), so the catch is not taken
GenericParser_parse(lines) ==
    Ok([EmptyInvoiceData EXCEPT
            !.rawText = Some(lineTexts(lines)),
            !.invoiceMetadata.invoiceDate = genericInvoiceDate(lines)],
       Some(<<"Generic parser used - manual review recommended">>))

---------------------------------------------------------------------------
(* Position-based strategies: the envelope each parse returns.  What the   *)
(* row heuristics find in a document is given by doc: whether an exception *)
(* is raised inside the try block, whether a header line matches, and how  *)
(* many line items are built.                                              *)

DocFacts ==
    [thrown : {None} \cup {Some(t) : t \in Thrown},
     headerFound : BOOLEAN,
     nItems : 0..MaxItems]

\* the common tail of the parse methods: { success: true, data: result,
\* warnings: items.length === 0 ? [warning] : undefined }
ItemsResult(n, warning) ==
    Ok([EmptyInvoiceData EXCEPT !.lineItems = LineItems(n)],
       IF n = 0 THEN Some(<<warning>>) ELSE None)

YamamotoParser_parse(lines, doc) ==
    IF doc.thrown # None
    THEN Fail(ErrorMessage(doc.thrown[1], "Failed to parse Yamamoto invoice"))
    ELSE ItemsResult(doc.nItems, "No line items found")

SwansonParser_parse(lines, doc) ==
    IF doc.thrown # None
    THEN Fail(ErrorMessage(doc.thrown[1], "Failed to parse Swanson invoice"))
    ELSE ItemsResult(doc.nItems, "No line items found")

BoleroParser_parse(lines, doc) ==
    IF doc.thrown # None
    THEN Fail(ErrorMessage(doc.thrown[1], "Bolero parsing failed"))
    ELSE ItemsResult(doc.nItems, "No line items parsed for Bolero")

MaiavieParser_parse(lines, doc) ==
    IF doc.thrown # None
    THEN Fail(ErrorMessage(doc.thrown[1], "Maiavie parsing failed"))
    ELSE ItemsResult(doc.nItems, "No line items parsed for Maiavie")

\* AddictParser.parse returning the data built so far with the header failure
AddictParser_parse_partialData(lines, doc) ==
    IF doc.thrown # None
    THEN Fail(ErrorMessage(doc.thrown[1], "Addict parsing failed"))
    ELSE IF ~doc.headerFound
    THEN [Fail("Addict header not found (Libelle/PU/Prix HT)")
             EXCEPT !.data = Some(EmptyInvoiceData)]
    ELSE ItemsResult(doc.nItems, "No line items parsed for Addict")

AddictParser_parse(lines, doc) ==
    IF doc.thrown # None
    THEN Fail(ErrorMessage(doc.thrown[1], "Addict parsing failed"))
    ELSE IF ~doc.headerFound
    THEN Fail("Addict header not found (Libelle/PU/Prix HT)")
    ELSE ItemsResult(doc.nItems, "No line items parsed for Addict")

\* parser.parse(textLines), dispatched on the class of parser
InvoiceParser_parse(p, lines, doc) ==
    CASE p = "YamamotoParser" -> YamamotoParser_parse(lines, doc)
      [] p = "SwansonParser"  -> SwansonParser_parse(lines, doc)
      [] p = "BoleroParser"   -> BoleroParser_parse(lines, doc)
      [] p = "MaiavieParser"  -> MaiavieParser_parse(lines, doc)
      [] p = "AddictParser"   -> AddictParser_parse(lines, doc)
      [] OTHER                -> GenericParser_parse(lines)

---------------------------------------------------------------------------
(* Table-extraction backend: PythonTableParser.parse.  ext is what the     *)
(* external extractor and the table interpreter yield: an exception, the   *)
(* number of tables, and the number of line items interpreted from them.   *)

TableFacts ==
    [thrown : {None} \cup {Some(t) : t \in Thrown},
     nTables : 0..1,
     nItems : 0..MaxItems]

PythonTableParser_parse(ext) ==
    IF ext.thrown # None
    THEN Fail(ErrorMessage(ext.thrown[1], "Python table parsing failed"))
    ELSE IF ext.nTables = 0
    THEN Fail("No tables found in PDF using Python extraction")
    ELSE Ok([EmptyInvoiceData EXCEPT !.lineItems = LineItems(ext.nItems)], None)

---------------------------------------------------------------------------
(* Inputs *)

Fragments ==
    {"", " ", "Yamamoto", "IAF", "Bolero", "SWANSON", "Maiavie", "Addict",
     "rabeko", "Media", "Farm"}

RECURSIVE NamesOf(_)
NamesOf(k) ==
    IF k = 0 THEN {""} ELSE {a \o b : a \in NamesOf(k - 1), b \in Fragments}

SupplierNames == NamesOf(MaxNameParts)

Run(page, x, y, T) == [page |-> page, x |-> x, y |-> y, T |-> T]

\* the documents the orchestrator is run on
SamplePdfData ==
    {<<>>,
     <<Run(1, 0, 4, "Invoice%2012%2F03%2F2024")>>,
     <<Run(1, 4, 4, "Total"), Run(1, 0, 4, "Net%20")>>,
     <<Run(1, 0, 4, "100%")>>}

\* what pdf2json does with a file: emits pdfParser_dataError, emits
\* pdfParser_dataReady, or throws out of loadPDF
PdfEvents ==
    {[name |-> "pdfParser_dataError", parserError |-> e, pdfData |-> <<>>, thrown |-> None] :
        e \in {"", "Invalid PDF structure"}}
    \cup {[name |-> "pdfParser_dataReady", parserError |-> "", pdfData |-> d, thrown |-> None] :
        d \in SamplePdfData}
    \cup {[name |-> "loadPDF_throws", parserError |-> "", pdfData |-> <<>>, thrown |-> Some(t)] :
        t \in Thrown}

---------------------------------------------------------------------------
(* parseInvoiceFromPdf, one action per stretch between two awaits *)

NoCall ==
    /\ calls = <<>>
    /\ pythonResult = None
    /\ extractionResult = None
    /\ parser = None
    /\ parseResult = None
    /\ result = None
    /\ pdfData = <<>>
    /\ textLines = <<>>
    /\ priceText = ""
    /\ prices = None
    /\ scan = None
    /\ tables = <<>>
    /\ invoice = None
    /\ procs = <<>>

Init ==
    /\ pc = "start"
    /\ supplierName \in SupplierNames
    /\ usePythonParser \in BOOLEAN
    /\ NoCall

\* the test of line 172 with "> 1" for "> 0"
pythonSucceededWithItems_offByOne(r) ==
    /\ r.success
    /\ r.data # None
    /\ Len(r.data[1].lineItems) > 1

\* the test of line 172 without its length test
pythonSucceededWithItems_anyCount(r) ==
    /\ r.success
    /\ r.data # None

\* result.success && result.data && result.data.lineItems && lineItems.length > 0
pythonSucceededWithItems(r) ==
    /\ r.success
    /\ r.data # None
    /\ Len(r.data[1].lineItems) > 0

\* lines 149-161 and 193: up to the first await
Begin ==
    /\ pc = "start"
    /\ IF usePythonParser \/ forcePythonParser(supplierName)
       THEN /\ pc' = "awaitPython"
            /\ calls' = Append(calls, "PythonTableParser.parse")
       ELSE /\ pc' = "awaitExtraction"
            /\ calls' = Append(calls, "extractStructuredText")
    /\ UNCHANGED <<supplierName, usePythonParser, pythonResult, extractionResult,
                   parser, parseResult, result, pdfData, textLines, priceText, prices, laterVars>>

\* lines 161-193: pythonParser.parse resolved
PythonResolves ==
    /\ pc = "awaitPython"
    /\ \E ext \in TableFacts :
         LET r == PythonTableParser_parse(ext)
         IN  /\ pythonResult' = Some(r)
             /\ IF forcePythonParser(supplierName) \/ pythonSucceededWithItems(r)
                THEN /\ result' = Some(r)
                     /\ pc' = "done"
                     /\ calls' = calls
                ELSE /\ result' = result
                     /\ pc' = "awaitExtraction"
                     /\ calls' = Append(calls, "extractStructuredText")
    /\ UNCHANGED <<supplierName, usePythonParser, extractionResult, parser,
                   parseResult, pdfData, textLines, priceText, prices, laterVars>>

\* extractionResult.error || "Failed to extract text from PDF"
extractionError(r) ==
    IF r.error # None /\ r.error[1] # "" THEN r.error[1]
    ELSE "Failed to extract text from PDF"

\* lines 193-206 and the catch at 209: extractStructuredText settled
ExtractionSettles ==
    /\ pc = "awaitExtraction"
    /\ \E event \in PdfEvents :
         IF event.name = "loadPDF_throws"
         THEN /\ result' = Some(Fail(ErrorMessage(event.thrown[1], "Unknown parsing error")))
              /\ pc' = "done"
              /\ UNCHANGED <<extractionResult, parser, pdfData, textLines, calls>>
         ELSE LET r == extractStructuredText(event)
              IN  /\ extractionResult' = Some(r)
                  /\ pdfData' = event.pdfData
                  /\ IF ~r.success \/ r.textLines = None
                     THEN /\ result' = Some(Fail(extractionError(r)))
                          /\ pc' = "done"
                          /\ UNCHANGED <<parser, textLines, calls>>
                     ELSE /\ parser' = Some(selectParser(supplierName))
                          /\ textLines' = r.textLines[1]
                          /\ calls' = calls \o <<"selectParser", selectParser(supplierName)>>
                          /\ pc' = "awaitParse"
                          /\ result' = result
    /\ UNCHANGED <<supplierName, usePythonParser, pythonResult, parseResult,
                   priceText, prices, laterVars>>

\* lines 206-208: parser.parse resolved
ParseResolves ==
    /\ pc = "awaitParse"
    /\ \E doc \in DocFacts :
         LET r == InvoiceParser_parse(parser[1], textLines, doc)
         IN  /\ parseResult' = Some(r)
             /\ result' = Some(r)
    /\ pc' = "done"
    /\ UNCHANGED <<supplierName, usePythonParser, calls, pythonResult,
                   extractionResult, parser, pdfData, textLines, priceText, prices, laterVars>>

Next ==
    \/ Begin
    \/ PythonResolves
    \/ ExtractionSettles
    \/ ParseResolves

Spec == Init /\ [][Next]_vars

---------------------------------------------------------------------------
(* A strategy used on its own: selectParser(name).parse(lines) *)

Line(y, t) ==
    [yPosition |-> y, text |-> t,
     items |-> <<[x |-> 0, y |-> y, text |-> t, page |-> 1]>>]

\* lines the strategies are tried on
SampleLines ==
    {<<>>,
     <<Line(2, "Invoice 12/03/2024")>>,
     <<Line(2, "Net"), Line(4, "Total 1.234,56")>>}

InitStrategy ==
    /\ pc = "strategy"
    /\ supplierName \in SupplierNames
    /\ usePythonParser = FALSE
    /\ NoCall

SelectStrategy ==
    /\ pc = "strategy"
    /\ parser' = Some(selectParser(supplierName))
    /\ calls' = Append(calls, "selectParser")
    /\ pc' = "selected"
    /\ UNCHANGED <<supplierName, usePythonParser, pythonResult, extractionResult,
                   parseResult, result, pdfData, textLines, priceText, prices, laterVars>>

StrategyParses ==
    /\ pc = "selected"
    /\ \E lines \in SampleLines, doc \in DocFacts :
         /\ textLines' = lines
         /\ parseResult' = Some(InvoiceParser_parse(parser[1], lines, doc))
    /\ calls' = Append(calls, parser[1])
    /\ pc' = "parsed"
    /\ UNCHANGED <<supplierName, usePythonParser, pythonResult, extractionResult,
                   parser, result, pdfData, priceText, prices, laterVars>>

NextParse ==
    \/ Next
    \/ SelectStrategy
    \/ StrategyParses

\* the orchestrator's calls together with every strategy called on its own
SpecParse == (Init \/ InitStrategy) /\ [][NextParse]_vars

---------------------------------------------------------------------------
(* Properties of the orchestrator *)

Finished == pc = "done"

\* the supplier name contains, in any letter case, a hard-pinned fragment
Pinned ==
    \E frag \in {"yamamoto", "iaf", "swanson", "rabeko"} :
        includes(toLowerCase(supplierName), frag)

StrategyNames ==
    {"YamamotoParser", "SwansonParser", "BoleroParser", "MaiavieParser",
     "AddictParser", "GenericParser"}

ItemCount(r) == IF r.data = None THEN 0 ELSE Len(r.data[1].lineItems)

SomeBackendSucceeded ==
    \/ pythonResult # None /\ pythonResult[1].success
    \/ parseResult # None /\ parseResult[1].success

\* C3 as stated: when the call has finished and a backend it attempted (the
\* table-extraction backend or a strategy) returned success = true, the final
\* result has success = true.
C3_AnySuccessIsFinal ==
    (Finished /\ SomeBackendSucceeded) => result[1].success

\* C3 as amended: the final result has success = true when the strategy
\* returned success = true, or when the table-extraction backend returned
\* success = true and either the supplier is pinned or the result has at
\* least one line item; a success of the table-extraction backend with zero
\* line items for a supplier that is not pinned is discarded.
C3_KeptSuccessIsFinal ==
    (/\ Finished
     /\ \/ parseResult # None /\ parseResult[1].success
        \/ /\ pythonResult # None
           /\ pythonResult[1].success
           /\ (Pinned \/ ItemCount(pythonResult[1]) >= 1))
    => result[1].success

C3_Witness ==
    /\ Finished
    /\ ~Pinned
    /\ pythonResult # None
    /\ pythonResult[1].success
    /\ ItemCount(pythonResult[1]) >= 1
    /\ result[1].success

\* a PdfExtractionResult: success = true implies data is present; success =
\* false implies an error string is present and data is absent
WellFormed(r) ==
    /\ r.success => r.data # None
    /\ ~r.success => (r.error # None /\ r.data = None)

\* C4: every call of parseInvoiceFromPdf and of a strategy's parse resolves
\* to a result (it never ends without one), and every result, of the call, of
\* the table-extraction backend and of a strategy, has data when success =
\* true, and an error and no data when success = false.
C4_AlwaysAWellFormedResult ==
    /\ Finished => result # None
    /\ pc = "parsed" => parseResult # None
    /\ result # None => WellFormed(result[1])
    /\ pythonResult # None => WellFormed(pythonResult[1])
    /\ parseResult # None => WellFormed(parseResult[1])

C4_Witness ==
    /\ pc = "parsed"
    /\ parser = Some("AddictParser")
    /\ ~parseResult[1].success
    /\ parseResult[1].error = Some("Addict header not found (Libelle/PU/Prix HT)")

\* C5: every result the call returns with success = true and zero line items
\* carries at least one warning; and a failure of the Addict strategy for a
\* missing header names the header and carries no data.
C5_ZeroItemsAreWarned ==
    /\ (Finished /\ result[1].success /\ ItemCount(result[1]) = 0) =>
           (result[1].warnings # None /\ Len(result[1].warnings[1]) >= 1)
    /\ (Finished /\ parser = Some("AddictParser") /\ parseResult # None
          /\ ~parseResult[1].success) =>
           (result[1].data = None /\ result[1].error # None)

\* the strategies the text selects, in the order of the text
SelectionOrder ==
    <<[strategy |-> "YamamotoParser", fragments |-> {"yamamoto", "iaf"}],
      [strategy |-> "BoleroParser",   fragments |-> {"bolero"}],
      [strategy |-> "SwansonParser",  fragments |-> {"swanson"}],
      [strategy |-> "MaiavieParser",  fragments |-> {"maiavie"}],
      [strategy |-> "AddictParser",   fragments |-> {"addict"}]>>

NameMatches(k) ==
    \E frag \in SelectionOrder[k].fragments :
        includes(trim(toLowerCase(supplierName)), frag)

---------------------------------------------------------------------------
(* The Generic strategy applied to lists of lines *)

GenericTexts ==
    {"Invoice 12/03/2024", "Date: 1-2-2023 ref", "no date here", "2024-03-12",
     "Due 31.12.2025", "tel 123/45/67890", "5/6/789", "99/99/2024"}

\* the sequences over S of length at most n
SeqsUpTo(S, n) == UNION {[1..k -> S] : k \in 0..n}

\* lists of lines as the Line Assembler orders them: ascending yPosition
GenericInputs ==
    {[i \in 1..Len(ts) |-> Line(2 * i, ts[i])] : ts \in SeqsUpTo(GenericTexts, MaxLines)}

InitGeneric ==
    /\ pc = "generic"
    /\ textLines \in GenericInputs
    /\ supplierName = "Unknown Supplier"
    /\ usePythonParser = FALSE
    /\ calls = <<>>
    /\ pythonResult = None
    /\ extractionResult = None
    /\ parser = None
    /\ parseResult = None
    /\ result = None
    /\ pdfData = <<>>
    /\ priceText = ""
    /\ prices = None
    /\ scan = None
    /\ tables = <<>>
    /\ invoice = None
    /\ procs = <<>>

GenericParses ==
    /\ pc = "generic"
    /\ parser' = Some(selectParser(supplierName))
    /\ parseResult' = Some(GenericParser_parse(textLines))
    /\ calls' = Append(calls, "GenericParser")
    /\ pc' = "parsed"
    /\ UNCHANGED <<supplierName, usePythonParser, pythonResult, extractionResult,
                   result, pdfData, textLines, priceText, prices, laterVars>>

NextGeneric == GenericParses

SpecGeneric == InitGeneric /\ [][NextGeneric]_vars

\* s contains one or two digits, a separator (/, - or .), one or two digits, a
\* separator and four digits
HasDate(s) ==
    \E i \in 1..Len(s), l1 \in 1..2, l2 \in 1..2 : dateMatchesAt(s, i, l1, l2)

\* the dates the written samples hold
KnownDates ==
    [t \in GenericTexts |->
        CASE t = "Invoice 12/03/2024" -> Some("2024-03-12")
          [] t = "Date: 1-2-2023 ref" -> Some("2023-2-1")
          [] t = "Due 31.12.2025"     -> Some("2025-12-31")
          [] t = "tel 123/45/67890"   -> Some("6789-45-23")
          [] t = "99/99/2024"         -> Some("2024-99-99")
          [] OTHER                    -> None]

\* C7: on every list of lines the Generic strategy returns success = true, no
\* line item, rawText equal to the texts of the lines in order, the warning
\* that manual review is recommended, and as invoiceDate the date of the first
\* line that contains a day/month/4-digit-year date, none when no line does.
C7_GenericResult ==
    (pc = "parsed" /\ parser = Some("GenericParser")) =>
        LET r    == parseResult[1]
            d    == r.data[1]
            with == {i \in 1..Len(textLines) : HasDate(textLines[i].text)}
        IN  /\ r.success
            /\ r.data # None
            /\ d.lineItems = <<>>
            /\ d.rawText # None
            /\ Len(d.rawText[1]) = Len(textLines)
            /\ \A i \in 1..Len(textLines) : d.rawText[1][i] = textLines[i].text
            /\ r.warnings = Some(<<"Generic parser used - manual review recommended">>)
            /\ (with = {}) <=> (d.invoiceMetadata.invoiceDate = None)
            /\ \A i \in with :
                   (\A j \in with : i <= j) =>
                       d.invoiceMetadata.invoiceDate = KnownDates[textLines[i].text]

C7_Witness ==
    /\ pc = "parsed"
    /\ Len(textLines) = 2
    /\ textLines[1].text = "2024-03-12"
    /\ textLines[2].text = "Date: 1-2-2023 ref"
    /\ parseResult[1].data[1].invoiceMetadata.invoiceDate = Some("2023-2-1")

---------------------------------------------------------------------------
(* The Line Assembler applied to lists of runs *)

RunTexts == {"a", "b%20", "%20"}
RunXs == {0, 4}
\* 0.25, 0.5 and 0.75: the first two round to 0.5, the third to 1.0
RunYs == {1, 2, 3}
RunPages == {1, 2}

\* runs arrive page by page: Pages.forEach visits the pages in order
RunLists ==
    {rs \in SeqsUpTo([page : RunPages, x : RunXs, y : RunYs, T : RunTexts], MaxRuns) :
        \A i \in 1..(Len(rs) - 1) : rs[i].page <= rs[i + 1].page}

InitAssemble ==
    /\ pc = "pdf"
    /\ pdfData \in RunLists
    /\ supplierName = ""
    /\ usePythonParser = FALSE
    /\ calls = <<>>
    /\ pythonResult = None
    /\ extractionResult = None
    /\ parser = None
    /\ parseResult = None
    /\ result = None
    /\ textLines = <<>>
    /\ priceText = ""
    /\ prices = None
    /\ scan = None
    /\ tables = <<>>
    /\ invoice = None
    /\ procs = <<>>

\* the pdfParser_dataReady handler
Assemble ==
    /\ pc = "pdf"
    /\ LET r == extractStructuredText([name |-> "pdfParser_dataReady", parserError |-> "",
                                       pdfData |-> pdfData, thrown |-> None])
       IN  /\ extractionResult' = Some(r)
           /\ textLines' = IF r.success THEN r.textLines[1] ELSE <<>>
    /\ calls' = Append(calls, "extractStructuredText")
    /\ pc' = "assembled"
    /\ UNCHANGED <<supplierName, usePythonParser, pythonResult, parser, parseResult,
                   result, pdfData, priceText, prices, laterVars>>

NextAssemble == Assemble

SpecAssemble == InitAssemble /\ [][NextAssemble]_vars

Assembled == pc = "assembled" /\ extractionResult[1].success

\* the positioned token a run becomes
TokenOf(run) ==
    [x |-> run.x, y |-> run.y, text |-> decodeURIComponent(run.T), page |-> run.page]

NonBlank == {i \in 1..Len(pdfData) : trim(decodeURIComponent(pdfData[i].T)) # ""}

LinesHolding(token) ==
    {l \in 1..Len(textLines) :
        \E k \in 1..Len(textLines[l].items) : textLines[l].items[k] = token}

RECURSIVE TokenCount(_)
TokenCount(lines) ==
    IF Len(lines) = 0 THEN 0 ELSE Len(lines[1].items) + TokenCount(Tail(lines))

\* what C8 says of the lines apart from their text
LinesAreClustered ==
    /\ \A l \in 1..(Len(textLines) - 1) :
           textLines[l].yPosition < textLines[l + 1].yPosition
    /\ \A l \in 1..Len(textLines) :
           LET line == textLines[l]
           IN  /\ line.yPosition % tolerance = 0
               \* the nearest multiple of the tolerance, a tie going up
               /\ \A k \in 1..Len(line.items) :
                      /\ 2 * (line.yPosition - line.items[k].y) <= tolerance
                      /\ 2 * (line.items[k].y - line.yPosition) < tolerance
               /\ \A k \in 1..(Len(line.items) - 1) :
                      line.items[k].x <= line.items[k + 1].x
               /\ line.text # ""
    /\ \A i \in NonBlank : Cardinality(LinesHolding(TokenOf(pdfData[i]))) = 1
    /\ TokenCount(textLines) = Cardinality(NonBlank)

\* C8 as stated: lines in strictly ascending yPosition; each yPosition a
\* multiple of 0.5 to which the y of every item of the line rounds; items in
\* ascending x; the line text equal to the items' texts joined with single
\* spaces; no empty text; every non-blank run in exactly one line.
C8_LineTextIsTheJoin ==
    Assembled =>
        /\ LinesAreClustered
        /\ \A l \in 1..Len(textLines) :
               textLines[l].text = join(itemTexts(textLines[l].items), " ")

\* C8 as amended: the same, the line text being the items' texts joined with
\* single spaces and then stripped of leading and trailing whitespace.
C8_LineTextIsTheTrimmedJoin ==
    Assembled =>
        /\ LinesAreClustered
        /\ \A l \in 1..Len(textLines) :
               LET joined == join(itemTexts(textLines[l].items), " ")
                   text   == textLines[l].text
               IN  \* joined is text between two runs of whitespace
                   \E a \in 0..(Len(joined) - Len(text)) :
                       /\ SubSeq(joined, a + 1, a + Len(text)) = text
                       /\ \A c \in 1..a : IsSpace(CharAt(joined, c))
                       /\ \A c \in (a + Len(text) + 1)..Len(joined) :
                              IsSpace(CharAt(joined, c))
                       /\ ~IsSpace(CharAt(text, 1))
                       /\ ~IsSpace(CharAt(text, Len(text)))

C8_Witness ==
    /\ Assembled
    /\ Len(textLines) = 1
    /\ Len(textLines[1].items) = 2
    /\ textLines[1].items[1].y # textLines[1].items[2].y
    /\ textLines[1].items[1].page > textLines[1].items[2].page
    /\ textLines[1].items[1].x < textLines[1].items[2].x
    /\ textLines[1].items[2].text = "b "
    /\ textLines[1].text = "a b"

---------------------------------------------------------------------------
(* Numbers of the price normalizers.  A finite number is a sign, a whole   *)
(* part and a fraction in ten-thousandths (the finest unit the code rounds *)
(* to); NaN and null are values of their own.  Zero has no sign.  The      *)
(* tokens of the model have at most four fraction digits and none of them  *)
(* lies on a rounding tie, so decimal arithmetic gives what the doubles    *)
(* of the runtime give.                                                    *)

Number(neg, whole, frac) ==
    [kind |-> "number", neg |-> neg /\ (whole # 0 \/ frac # 0),
     whole |-> whole, frac |-> frac]

NaN == [kind |-> "NaN", neg |-> FALSE, whole |-> 0, frac |-> 0]

null == [kind |-> "null", neg |-> FALSE, whole |-> 0, frac |-> 0]

isNaN(n) == n.kind = "NaN"

\* -n
negate(n) ==
    IF isNaN(n) THEN NaN ELSE Number(~n.neg, n.whole, n.frac)

\* the longest prefix of s made of digits
RECURSIVE digitPrefix(_)
digitPrefix(s) ==
    IF s # "" /\ IsDigit(CharAt(s, 1))
    THEN CharAt(s, 1) \o digitPrefix(SubSeq(s, 2, Len(s)))
    ELSE ""

\* parseFloat(s): leading white space, an optional sign, digits, and a
\* period with digits; reading stops at the first character that does not
\* continue the number, and a text without any digit gives NaN
parseFloat(s) ==
    LET t == trimStart(s)
        signed == t # "" /\ CharAt(t, 1) \in {"-", "+"}
        u == IF signed THEN SubSeq(t, 2, Len(t)) ELSE t
        int == digitPrefix(u)
        rest == SubSeq(u, Len(int) + 1, Len(u))
        dec == IF startsWith(rest, ".")
               THEN digitPrefix(SubSeq(rest, 2, Len(rest))) ELSE ""
    IN  IF int = "" /\ dec = "" THEN NaN
        ELSE Number(signed /\ CharAt(t, 1) = "-", parseInt(int),
                    parseInt(Substring(dec \o "0000", 1, 4)))

\* Math.round(n * 10^digits) / 10^digits for digits in {2, 3, 4}; Math.round
\* moves a tie towards plus infinity
roundTo(n, digits) ==
    IF isNaN(n) THEN NaN
    ELSE LET unit == IF digits = 2 THEN 100 ELSE IF digits = 3 THEN 10 ELSE 1
             half == IF n.neg THEN (unit - 1) \div 2 ELSE unit \div 2
             f == ((n.frac + half) \div unit) * unit
         IN  IF f = 10000 THEN Number(n.neg, n.whole + 1, 0)
             ELSE Number(n.neg, n.whole, f)

\* cents / 100 for an integer number of cents
centsToNumber(cents) ==
    LET a == IF cents < 0 THEN -cents ELSE cents
    IN  Number(cents < 0, a \div 100, (a % 100) * 100)

\* s.replace(/[^0-9]/g, "")
RECURSIVE digitsOnly(_)
digitsOnly(s) ==
    IF s = "" THEN ""
    ELSE (IF IsDigit(CharAt(s, 1)) THEN CharAt(s, 1) ELSE "")
         \o digitsOnly(SubSeq(s, 2, Len(s)))

\* the number of characters of s that are in chars: (s.match(/[..]/g) || []).length
RECURSIVE countChars(_, _)
countChars(s, chars) ==
    IF s = "" THEN 0
    ELSE (IF CharAt(s, 1) \in chars THEN 1 ELSE 0)
         + countChars(SubSeq(s, 2, Len(s)), chars)

Separators == {".", ","}

\* s.match(/(.*?)[.,](\d{2})$/): the text ends with a separator and two
\* digits; the lazy group is then everything before that separator
endsWithTwoDecimals(s) ==
    /\ Len(s) >= 3
    /\ CharAt(s, Len(s) - 2) \in Separators
    /\ IsDigit(CharAt(s, Len(s) - 1))
    /\ IsDigit(CharAt(s, Len(s)))

---------------------------------------------------------------------------
(* The price normalizers *)

\* a text without its leading minus sign
withoutSign(trimmed) ==
    IF startsWith(trimmed, "-") THEN SubSeq(trimmed, 2, Len(trimmed)) ELSE trimmed

\* the text YamamotoParser.parsePrice hands to parseFloat for a text n
\* without sign
normalizedPrice(n) ==
    IF countChars(n, Separators) > 1
    THEN IF includes(n, ",") /\ lastIndexOf(n, ",") > lastIndexOf(n, ".")
         THEN replaceFirst(removeChars(n, {"."}), ",", ".")
         ELSE IF includes(n, ".") /\ lastIndexOf(n, ".") > lastIndexOf(n, ",")
         THEN removeChars(n, {","})
         ELSE n
    ELSE LET parts == split(n, Separators)
         IN  IF Len(parts) = 2 /\ Len(parts[2]) = 2
             THEN replaceFirst(n, ",", ".")
             ELSE n

\* isNegative ? -parsed : parsed, rounded
signedValue(isNegative, parsed, digits) ==
    roundTo(IF isNegative THEN negate(parsed) ELSE parsed, digits)

\* YamamotoParser.parsePrice
YamamotoParser_parsePrice(priceText0) ==
    signedValue(startsWith(trim(priceText0), "-"),
                parseFloat(normalizedPrice(withoutSign(trim(priceText0)))), 2)

\* the characters /[€$£%]/g and /\s+/g remove
CentSymbols == {"€", "$", "£", "%"}

\* BoleroParser.parsePrice: exact arithmetic in cents
BoleroParser_parsePrice(text) ==
    LET t == trim(text)
        s0 == removeChars(removeChars(t, CentSymbols), {" ", "\t", "\n"})
        neg == startsWith(s0, "-")
        s == IF neg THEN SubSeq(s0, 2, Len(s0)) ELSE s0
        d == digitsOnly(s)
        intPart == removeChars(SubSeq(s, 1, Len(s) - 3), Separators)
        dec == SubSeq(s, Len(s) - 1, Len(s))
        cents == parseInt(intPart) * 100 + parseInt(dec)
    IN  IF t = "" THEN Number(FALSE, 0, 0)
        ELSE IF ~endsWithTwoDecimals(s)
        THEN IF d = "" THEN Number(FALSE, 0, 0)
             ELSE centsToNumber(IF neg THEN -(parseInt(d) * 100) ELSE parseInt(d) * 100)
        ELSE IF intPart = "" \/ ~AllDigits(intPart) THEN Number(FALSE, 0, 0)
        ELSE centsToNumber(IF neg THEN -cents ELSE cents)

\* MaiavieParser.parsePrice: the same text as BoleroParser.parsePrice
MaiavieParser_parsePrice(priceText0) ==
    LET t == trim(priceText0)
        s0 == removeChars(removeChars(t, CentSymbols), {" ", "\t", "\n"})
        neg == startsWith(s0, "-")
        s == IF neg THEN SubSeq(s0, 2, Len(s0)) ELSE s0
        d == digitsOnly(s)
        intPart == removeChars(SubSeq(s, 1, Len(s) - 3), Separators)
        dec == SubSeq(s, Len(s) - 1, Len(s))
        cents == parseInt(intPart) * 100 + parseInt(dec)
    IN  IF t = "" THEN Number(FALSE, 0, 0)
        ELSE IF ~endsWithTwoDecimals(s)
        THEN IF d = "" THEN Number(FALSE, 0, 0)
             ELSE centsToNumber(IF neg THEN -(parseInt(d) * 100) ELSE parseInt(d) * 100)
        ELSE IF intPart = "" \/ ~AllDigits(intPart) THEN Number(FALSE, 0, 0)
        ELSE centsToNumber(IF neg THEN -cents ELSE cents)

\* AddictParser.parsePrice: both of its patterns end with a separator and
\* two digits and both leave the digits before that separator as the integer
\* part; what is not a digit there is dropped, not refused
AddictParser_parsePrice(priceText0) ==
    LET t == trim(priceText0)
        s0 == removeChars(removeChars(t, CentSymbols), {" ", "\t", "\n"})
        isNegative == startsWith(s0, "-")
        s == IF isNegative THEN SubSeq(s0, 2, Len(s0)) ELSE s0
        d == digitsOnly(s)
        integerPart == removeChars(SubSeq(s, 1, Len(s) - 3), Separators)
        decimals == SubSeq(s, Len(s) - 1, Len(s))
        intDigits == digitsOnly(integerPart)
        cents == parseInt(intDigits) * 100 + parseInt(decimals)
    IN  IF t = "" THEN Number(FALSE, 0, 0)
        ELSE IF ~endsWithTwoDecimals(s)
        THEN IF d = "" THEN Number(FALSE, 0, 0)
             ELSE centsToNumber(IF isNegative THEN -(parseInt(d) * 100)
                                ELSE parseInt(d) * 100)
        ELSE IF intDigits = "" THEN Number(FALSE, 0, 0)
        ELSE centsToNumber(IF isNegative THEN -cents ELSE cents)

\* the characters /[€$£¥]/g removes
CurrencySymbols == {"€", "$", "£", "¥"}

\* parts.slice(0, -1).join('') + '.' + parts[parts.length - 1]
decimalAtLastPart(parts) ==
    join(SubSeq(parts, 1, Len(parts) - 1), "") \o "." \o parts[Len(parts)]

\* the text PythonTableParser.parsePrice hands to parseFloat for a text c
\* without sign and currency symbol
cleanPrice(c) ==
    IF includes(c, ",") /\ includes(c, ".")
    THEN IF lastIndexOf(c, ",") > lastIndexOf(c, ".")
         THEN LET parts == split(c, {","})
              IN  IF Len(parts[Len(parts)]) <= 3
                  THEN decimalAtLastPart(parts)
                  ELSE removeChars(c, {","})
         ELSE LET parts == split(c, {"."})
              IN  IF Len(parts[Len(parts)]) <= 3
                  THEN decimalAtLastPart(parts)
                  ELSE removeChars(c, {"."})
    ELSE IF includes(c, ",")
    THEN LET parts == split(c, {","})
         IN  IF Len(parts) = 2 /\ Len(parts[2]) <= 3
             THEN parts[1] \o "." \o parts[2]
             ELSE removeChars(c, {","})
    ELSE c

\* isNegative ? -price : price, rounded; null for NaN
signedPrice(isNegative, price, digits) ==
    IF isNaN(price) THEN null
    ELSE roundTo(IF isNegative THEN negate(price) ELSE price, digits)

\* PythonTableParser.parsePrice (the table interpreter)
PythonTableParser_parsePrice(priceStr, allowMultiDigitDecimals) ==
    signedPrice(startsWith(trim(priceStr), "-"),
                parseFloat(cleanPrice(trim(removeChars(withoutSign(trim(priceStr)),
                                                       CurrencySymbols)))),
                IF allowMultiDigitDecimals THEN 4 ELSE 2)

---------------------------------------------------------------------------
(* The price normalizers on their own: a token is drawn and every          *)
(* normalizer of the engine is applied to it.                              *)

\* the tokens the normalizers' comments and the specification name
NamedTokens ==
    {"1.234,56", "1,234.56", "123,45", "1,234", "1.234", "2478,42",
     "17.09", "5", "", "n/a"}

TokenDigits == {"1", "7"}

\* the digit strings of length 1..k over TokenDigits
RECURSIVE DigitStrings(_)
DigitStrings(k) ==
    IF k = 0 THEN {}
    ELSE {d : d \in TokenDigits}
         \cup {s \o d : s \in DigitStrings(k - 1), d \in TokenDigits}

\* sign and currency, leading digits, an optional group of three digits and
\* an optional fraction, with either separator at either place
GeneratedTokens ==
    {p \o lead \o group \o fraction :
        p \in {"", "-", "€", "-$"},
        lead \in DigitStrings(MaxIntDigits),
        group \in {"", ",234", ".234", " 234"},
        fraction \in {"", ",56", ".56", ",4", ".4"}}

\* tokens with three decimals whose hundredfold is a half: the doubles of the
\* runtime hold them exactly (they are eighths), so Math.round sees a tie
TieTokens == {"0,125", "-0,125", "0.125", "-0.125", "-0,31", "0,31"}

PriceTokens == NamedTokens \cup GeneratedTokens \cup TieTokens

InitPrice ==
    /\ pc = "price"
    /\ priceText \in PriceTokens
    /\ prices = None
    /\ scan = None
    /\ tables = <<>>
    /\ invoice = None
    /\ procs = <<>>
    /\ supplierName = ""
    /\ usePythonParser = FALSE
    /\ calls = <<>>
    /\ pythonResult = None
    /\ extractionResult = None
    /\ parser = None
    /\ parseResult = None
    /\ result = None
    /\ pdfData = <<>>
    /\ textLines = <<>>

\* every normalizer is applied to the token; PythonTableParser4 is the table
\* interpreter called with allowMultiDigitDecimals
Normalize ==
    /\ pc = "price"
    /\ pc' = "normalized"
    /\ prices' = Some([YamamotoParser     |-> YamamotoParser_parsePrice(priceText),
                       BoleroParser       |-> BoleroParser_parsePrice(priceText),
                       MaiavieParser      |-> MaiavieParser_parsePrice(priceText),
                       AddictParser       |-> AddictParser_parsePrice(priceText),
                       PythonTableParser  |-> PythonTableParser_parsePrice(priceText, FALSE),
                       PythonTableParser4 |-> PythonTableParser_parsePrice(priceText, TRUE)])
    /\ UNCHANGED <<supplierName, usePythonParser, calls, pythonResult,
                   extractionResult, parser, parseResult, result, pdfData,
                   textLines, priceText, laterVars>>

NextPrice == Normalize

SpecPrice == InitPrice /\ [][NextPrice]_vars

Normalized == pc = "normalized"

\* the normalizers that round to two decimals
TwoDecimalNormalizers ==
    {"YamamotoParser", "BoleroParser", "MaiavieParser", "AddictParser",
     "PythonTableParser"}

\* a token made of digits and separators only, starting and ending with a digit
PlainToken(t) ==
    /\ t # ""
    /\ IsDigit(CharAt(t, 1))
    /\ IsDigit(CharAt(t, Len(t)))
    /\ \A i \in 1..Len(t) : IsDigit(CharAt(t, i)) \/ CharAt(t, i) \in Separators

\* the position (1-based) of the rightmost separator of t
RightmostSeparator(t) ==
    CHOOSE i \in 1..Len(t) :
        /\ CharAt(t, i) \in Separators
        /\ \A j \in (i + 1)..Len(t) : CharAt(t, j) \notin Separators

\* t read with its rightmost separator as the decimal point and every other
\* separator as grouping
RightmostIsDecimal(t) ==
    LET i == RightmostSeparator(t)
    IN  Number(FALSE, parseInt(digitsOnly(SubSeq(t, 1, i - 1))),
               parseInt(Substring(SubSeq(t, i + 1, Len(t)) \o "0000", 1, 4)))

\* t read with every separator as grouping
AllGrouping(t) == Number(FALSE, parseInt(digitsOnly(t)), 0)

\* C9: in every price normalizer '1.234,56' and '1,234.56' give 1234.56 and
\* '123,45' gives 123.45; a token holding both separators is read with the
\* rightmost one as the decimal point and the other one removed as grouping.
C9_LocaleInvariance ==
    Normalized =>
        \A k \in DOMAIN prices[1] :
            /\ priceText \in {"1.234,56", "1,234.56"}
                   => prices[1][k] = Number(FALSE, 1234, 5600)
            /\ priceText = "123,45" => prices[1][k] = Number(FALSE, 123, 4500)
            /\ (/\ PlainToken(priceText)
                /\ includes(priceText, ",") /\ includes(priceText, "."))
                   => prices[1][k] = roundTo(RightmostIsDecimal(priceText),
                                             IF k = "PythonTableParser4" THEN 4 ELSE 2)

\* C10: in every 2-decimal price normalizer a token with exactly one
\* separator is a decimal number when exactly two digits follow the
\* separator and a grouped integer otherwise: '1,234' and '1.234' give 1234.
C10_SingleSeparator ==
    Normalized =>
        \A k \in TwoDecimalNormalizers :
            /\ priceText \in {"1,234", "1.234"}
                   => prices[1][k] = Number(FALSE, 1234, 0)
            /\ (PlainToken(priceText) /\ countChars(priceText, Separators) = 1)
                   => prices[1][k] =
                          IF Len(priceText) - RightmostSeparator(priceText) = 2
                          THEN RightmostIsDecimal(priceText)
                          ELSE AllGrouping(priceText)

\* the normalizer named k applied to a token
parsePriceOf(k, t) ==
    CASE k = "YamamotoParser"     -> YamamotoParser_parsePrice(t)
      [] k = "BoleroParser"       -> BoleroParser_parsePrice(t)
      [] k = "MaiavieParser"      -> MaiavieParser_parsePrice(t)
      [] k = "AddictParser"       -> AddictParser_parsePrice(t)
      [] k = "PythonTableParser"  -> PythonTableParser_parsePrice(t, FALSE)
      [] k = "PythonTableParser4" -> PythonTableParser_parsePrice(t, TRUE)

\* -n for a number, and n itself for null and NaN
negated(n) == IF n.kind = "number" THEN negate(n) ELSE n

\* C11: a price token with a leading minus sign normalizes, in every price
\* normalizer, to the negation of the value of the same token without the
\* sign; '-0,31' gives -0.31.
C11_MinusNegates ==
    (Normalized /\ startsWith(priceText, "-")) =>
        \A k \in DOMAIN prices[1] :
            /\ prices[1][k] = negated(parsePriceOf(k, SubSeq(priceText, 2, Len(priceText))))
            /\ priceText = "-0,31" => prices[1][k] = Number(TRUE, 0, 3100)

---------------------------------------------------------------------------
(* Arithmetic on the numbers of line items.  Products and quotients are    *)
(* exact down to the ten-thousandth, which is all the roundings of the     *)
(* code look at for the quantities and prices of the model.                *)

\* n in ten-thousandths, signed
toUnits(n) == (IF n.neg THEN -1 ELSE 1) * (n.whole * 10000 + n.frac)

fromUnits(u) ==
    LET a == IF u < 0 THEN -u ELSE u
    IN  Number(u < 0, a \div 10000, a % 10000)

abs(i) == IF i < 0 THEN -i ELSE i

\* a * b
times(a, b) ==
    IF isNaN(a) \/ isNaN(b) THEN NaN
    ELSE LET sign == IF a.neg = b.neg THEN 1 ELSE -1
             ua == abs(toUnits(a))
         IN  fromUnits(sign * (ua * b.whole + (ua * b.frac) \div 10000))

\* a / b for a whole b that is not zero
dividedBy(a, b) ==
    LET sign == IF a.neg = b.neg THEN 1 ELSE -1
    IN  fromUnits(sign * (abs(toUnits(a)) \div b.whole))

isZero(n) == n.kind = "number" /\ n.whole = 0 /\ n.frac = 0

\* !n for a value that is a number, NaN or null
falsy(n) == n.kind # "number" \/ isZero(n)

\* a > 0
positive(n) == n.kind = "number" /\ ~n.neg /\ ~isZero(n)

---------------------------------------------------------------------------
(* The patterns the row parsers test tokens with *)

Digits == {"0", "1", "2", "3", "4", "5", "6", "7", "8", "9"}

\* [A-Z0-9]
UpperOrDigit == Digits \cup DOMAIN LowerOf

\* \w
Word == UpperOrDigit \cup {LowerOf[u] : u \in DOMAIN LowerOf} \cup {"_"}

\* the longest prefix of s whose characters are all in the class
RECURSIVE runOf(_, _)
runOf(s, class) ==
    IF s # "" /\ CharAt(s, 1) \in class
    THEN CharAt(s, 1) \o runOf(SubSeq(s, 2, Len(s)), class)
    ELSE ""

hasDigit(s) == \E i \in 1..Len(s) : IsDigit(CharAt(s, i))

\* s without the prefix p
after(s, p) == SubSeq(s, Len(p) + 1, Len(s))

SkuPrefixes == {"IAF", "FITT", "YAM"}

\* /^(IAF|FITT|YAM)\w*\d+/
isYamamotoSku(s) ==
    \E p \in SkuPrefixes :
        startsWith(s, p) /\ hasDigit(runOf(after(s, p), Word))

\* /^(IAF|FITT|YAM)[A-Z0-9]*\d+/
isTableSku(s) ==
    \E p \in SkuPrefixes :
        startsWith(s, p) /\ hasDigit(runOf(after(s, p), UpperOrDigit))

\* s without a leading minus sign: the -? the patterns start with
unsigned(s) == IF startsWith(s, "-") THEN after(s, "-") ELSE s

\* (?:[seps]\d{3})*
RECURSIVE isGroups(_, _)
isGroups(s, seps) ==
    \/ s = ""
    \/ /\ Len(s) >= 4
       /\ CharAt(s, 1) \in seps
       /\ AllDigits(SubSeq(s, 2, 4))
       /\ isGroups(SubSeq(s, 5, Len(s)), seps)

\* \d{1,3}(?:[seps]\d{3})*
isGrouped(s, seps) ==
    \E k \in 1..3 :
        /\ Len(s) >= k
        /\ AllDigits(SubSeq(s, 1, k))
        /\ isGroups(SubSeq(s, k + 1, Len(s)), seps)

\* /^-?\d{1,3}(?:[.,]\d{3})*[.,]\d{2}$/
isYamamotoPrice(text) ==
    LET s == unsigned(text)
    IN  /\ endsWithTwoDecimals(s)
        /\ isGrouped(SubSeq(s, 1, Len(s) - 3), Separators)

\* /^-?\d+(?:[.,]\d+)?$/
isNumeric(text) ==
    LET s == unsigned(text)
        int == digitPrefix(s)
        rest == after(s, int)
    IN  /\ int # ""
        /\ \/ rest = ""
           \/ /\ Len(rest) >= 2
              /\ CharAt(rest, 1) \in Separators
              /\ AllDigits(SubSeq(rest, 2, Len(rest)))

\* /^-?\d+[.,]?\d*$/
isLooseNumber(text) ==
    LET s == unsigned(text)
        int == digitPrefix(s)
        rest == after(s, int)
    IN  /\ int # ""
        /\ \/ AllDigits(rest)
           \/ (CharAt(rest, 1) \in Separators /\ AllDigits(SubSeq(rest, 2, Len(rest))))

\* /^\d+$/
isInteger(text) == text # "" /\ AllDigits(text)

\* /^-?\d{1,3}(?:[seps]\d{3})*[.,]\d{2,}$/, or with simple /^-?\d+[.,]\d{2,}$/
isPriceShaped(text, seps, simple) ==
    LET s == unsigned(text)
    IN  \E m \in 2..(Len(s) - 2) :
            /\ AllDigits(SubSeq(s, Len(s) - m + 1, Len(s)))
            /\ CharAt(s, Len(s) - m) \in Separators
            /\ LET body == SubSeq(s, 1, Len(s) - m - 1)
               IN  IF simple THEN AllDigits(body) ELSE isGrouped(body, seps)

\* isPriceLike of BoleroParser and AddictParser
isPriceLike(text) ==
    \/ isPriceShaped(trim(text), Separators \cup {" ", "\t", "\n"}, FALSE)
    \/ isPriceShaped(trim(text), {}, TRUE)

\* s.replace(/\s+/g, " ").trim()
RECURSIVE collapseSpaces(_)
collapseSpaces(s) ==
    IF s = "" THEN ""
    ELSE IF IsSpace(CharAt(s, 1))
    THEN " " \o collapseSpaces(trimStart(s))
    ELSE CharAt(s, 1) \o collapseSpaces(SubSeq(s, 2, Len(s)))

squeeze(s) == trim(collapseSpaces(s))

---------------------------------------------------------------------------
(* Line items as the row parsers build them.  Positions are in tenths of   *)
(* the unit of pdf2json, so the 0.5 of a row tolerance is 5.               *)

undefined == [kind |-> "undefined", neg |-> FALSE, whole |-> 0, frac |-> 0]

\* description || undefined
orUndefined(s) == IF s = "" THEN None ELSE Some(s)

\* { supplierSku, description, quantity, unitPrice, total }
LineItem(sku, description, quantity, unitPrice, total) ==
    [supplierSku |-> sku, description |-> orUndefined(description),
     quantity |-> quantity, unitPrice |-> unitPrice, total |-> total]

\* the ParsedInvoiceData of a parse that read these items and this fee
InvoiceData(items, shippingFee) ==
    [EmptyInvoiceData EXCEPT !.lineItems = items,
                             !.invoiceMetadata.shippingFee = shippingFee]

\* a line of the assembler: cells are <<x, text>> pairs in ascending x
TextLine(y, cells) ==
    LET items == [i \in 1..Len(cells) |->
                     [x |-> cells[i][1], y |-> y, text |-> cells[i][2], page |-> 1]]
    IN  [yPosition |-> y, items |-> items, text |-> lineText(items)]

\* s.toUpperCase() for the letters of the model
RECURSIVE toUpperCase(_)
toUpperCase(s) ==
    IF s = "" THEN ""
    ELSE LET c == CharAt(s, 1)
             up == {u \in DOMAIN LowerOf : LowerOf[u] = c}
         IN  (IF up = {} THEN c ELSE CHOOSE u \in up : TRUE)
             \o toUpperCase(SubSeq(s, 2, Len(s)))

---------------------------------------------------------------------------
(* YamamotoParser: rows are found by their SKU element *)

\* YamamotoParser.parseNumber
YamamotoParser_parseNumber(numberText) ==
    signedValue(startsWith(trim(numberText), "-"),
                parseFloat(replaceFirst(unsigned(trim(numberText)), ",", ".")), 3)

\* /^PZ\s+(-?\d+[.,]?\d*)$/: the captured number, or "" without a match
pzQuantity(text) ==
    LET rest == after(text, "PZ")
    IN  IF startsWith(text, "PZ") /\ rest # "" /\ IsSpace(CharAt(rest, 1))
           /\ isLooseNumber(trimStart(rest))
        THEN trimStart(rest) ELSE ""

\* YamamotoParser.extractQuantity
extractQuantity(elements) ==
    LET withPz == SelectSeq(elements, LAMBDA el : pzQuantity(el.text) # "")
        pzElements == SelectSeq(elements, LAMBDA el : el.text = "PZ")
        numberElements == SelectSeq(elements, LAMBDA el : isLooseNumber(el.text))
        dist(el) == abs(el.x - pzElements[1].x)
        \* reduce keeps the earlier element unless a later one is strictly closer
        closest == CHOOSE i \in 1..Len(numberElements) :
                       /\ \A j \in 1..Len(numberElements) :
                              dist(numberElements[i]) <= dist(numberElements[j])
                       /\ \A j \in 1..(i - 1) :
                              dist(numberElements[j]) > dist(numberElements[i])
    IN  IF Len(withPz) > 0 THEN YamamotoParser_parseNumber(pzQuantity(withPz[1].text))
        ELSE IF Len(pzElements) > 0 /\ Len(numberElements) > 0
        THEN YamamotoParser_parseNumber(numberElements[closest].text)
        ELSE null

\* the elements extractUnitPrice and extractTotal filter, sorted by x
priceElements(elements) ==
    sortByX(SelectSeq(elements, LAMBDA el : isYamamotoPrice(trim(el.text))))

\* YamamotoParser.extractUnitPrice, given the price elements of the row
unitPriceOf(ps) ==
    IF Len(ps) >= 3 THEN YamamotoParser_parsePrice(ps[2].text)
    ELSE IF Len(ps) = 2 THEN YamamotoParser_parsePrice(ps[1].text)
    ELSE null

extractUnitPrice(elements) == unitPriceOf(priceElements(elements))

\* YamamotoParser.extractTotal, given the price elements of the row
totalOf(ps) ==
    IF Len(ps) >= 1 THEN YamamotoParser_parsePrice(ps[Len(ps)].text) ELSE null

extractTotal(elements) == totalOf(priceElements(elements))

\* YamamotoParser.extractDescription
extractDescription(elements) ==
    LET skipped(text) ==
            \/ isYamamotoSku(text)
            \/ (startsWith(text, "PZ") /\ Len(text) > 2 /\ IsSpace(CharAt(text, 3))
                /\ digitPrefix(trimStart(after(text, "PZ"))) # "")
            \/ (endsWithTwoDecimals(text) /\ isInteger(SubSeq(text, 1, Len(text) - 3)))
            \/ (LET a == trimStart(after(text, "CUSTOM"))
                    b == trimStart(after(a, "'"))
                    c == after(b, "S")
                IN  /\ startsWith(text, "CUSTOM") /\ startsWith(a, "'")
                    /\ startsWith(b, "S") /\ c # "" /\ IsSpace(CharAt(c, 1))
                    /\ startsWith(trimStart(c), "TARIFF"))
            \/ (Len(text) = 8 /\ AllDigits(text))
            \/ \E p \in {"NI", "ESC"} : startsWith(text, p) /\ isInteger(after(text, p))
        kept == SelectSeq(elements, LAMBDA el :
                    /\ ~skipped(el.text)
                    /\ Len(el.text) > 2
                    /\ removeChars(el.text, {"-", " ", "\t", "\n"}) # "")
    IN  squeeze(join(itemTexts(kept), " "))

\* if (!quantity || !unitPrice || !total) return null; and the returned item
itemOrNone(supplierSku, description, quantity, unitPrice, total) ==
    IF falsy(quantity) \/ falsy(unitPrice) \/ falsy(total) THEN None
    ELSE Some(LineItem(supplierSku, description, quantity, unitPrice, total))

\* YamamotoParser.parseRowElements: the line item of a row, or None
parseSortedElements(skuElement, sortedElements) ==
    itemOrNone(trim(skuElement.text), extractDescription(sortedElements),
               extractQuantity(sortedElements), extractUnitPrice(sortedElements),
               extractTotal(sortedElements))

parseRowElements(skuElement, rowElements) ==
    parseSortedElements(skuElement, sortByX(rowElements))

\* the elements of all lines in line order, each text trimmed
RECURSIVE allTextElements(_)
allTextElements(lines) ==
    IF Len(lines) = 0 THEN <<>>
    ELSE [i \in 1..Len(lines[1].items) |->
             [lines[1].items[i] EXCEPT !.text = trim(@)]]
         \o allTextElements(Tail(lines))

\* one concatenated sequence from a sequence of sequences
RECURSIVE flat(_)
flat(seqs) == IF Len(seqs) = 0 THEN <<>> ELSE seqs[1] \o flat(Tail(seqs))

\* YamamotoParser.parseLineItemsBySku: one row for every SKU element, made
\* of the elements within 5 of its y
rowsBySku(all, skuElements) ==
    flat([k \in 1..Len(skuElements) |->
             parseRowElements(skuElements[k],
                 SelectSeq(all, LAMBDA el : abs(el.y - skuElements[k].y) <= 5))])

skuElementsOf(all) == SelectSeq(all, LAMBDA el : isYamamotoSku(el.text))

parseLineItemsBySku(lines) ==
    rowsBySku(allTextElements(lines), skuElementsOf(allTextElements(lines)))

\* { success: true, data, warnings } with a warning when there is no item
itemsResult(items, shippingFee, warning) ==
    Ok(InvoiceData(items, shippingFee),
       IF Len(items) = 0 THEN Some(<<warning>>) ELSE None)

\* YamamotoParser.parse of lines without a date or an invoice number
YamamotoParser_parseRows(lines) ==
    itemsResult(parseLineItemsBySku(lines), Number(FALSE, 0, 0), "No line items found")

---------------------------------------------------------------------------
(* AddictParser: columns are the x positions of the header's labels, and   *)
(* the lines below the header are scanned in order                         *)

\* the x of the last element of a header the classifier gives column c,
\* or None: the forEach that fills columnThresholds
threshold(elements, column(_), c) ==
    LET hits == SelectSeq(elements, LAMBDA el : column(el.text) = c)
    IN  IF Len(hits) = 0 THEN None ELSE Some(hits[Len(hits)].x)

columnThresholds(elements, column(_)) ==
    [c \in {"sku", "description", "quantity", "unitPrice", "total"} |->
        threshold(sortByX(elements), column, c)]

\* the chain of tests on a header element of AddictParser.parse
AddictColumn(text) ==
    LET t == toLowerCase(text)
    IN  IF includes(t, "réf") \/ t = "ref" \/ includes(t, "code") THEN "sku"
        ELSE IF includes(t, "libell") THEN "description"
        ELSE IF t = "q." \/ startsWith(t, "q ") \/ includes(t, "quant") THEN "quantity"
        ELSE IF t = "pu" \/ (includes(t, "unit") /\ includes(t, "prix")) THEN "unitPrice"
        ELSE IF includes(t, "prix ht") \/ includes(t, "montant ht") \/ includes(t, "total")
        THEN "total"
        ELSE ""

\* the test of AddictParser.parse for the header line
isAddictHeader(line) ==
    LET upper == toUpperCase(line.text)
    IN  /\ includes(upper, "LIBELL")
        /\ includes(upper, "PU") \/ includes(upper, "P.U")
        /\ \E label \in {"PRIX HT", "MONTANT HT", "TOTAL HT"} : includes(upper, label)

\* the index of the first line satisfying the test, 0 when there is none
firstLine(lines, Test(_)) ==
    IF \E i \in 1..Len(lines) : Test(lines[i])
    THEN CHOOSE i \in 1..Len(lines) :
             Test(lines[i]) /\ \A j \in 1..(i - 1) : ~Test(lines[j])
    ELSE 0

\* the trimmed, non-empty texts of a sequence of elements
trimmedTexts(elements) ==
    SelectSeq([i \in 1..Len(elements) |-> trim(elements[i].text)], LAMBDA t : t # "")

\* parseNumber of AddictParser and BoleroParser
parseNumber(text) ==
    LET num == parseFloat(replaceFirst(removeChars(text, {" ", "\t", "\n"}), ",", "."))
    IN  IF isNaN(num) THEN null ELSE num

\* the text of the description column, between the description and the
\* quantity thresholds, without the labels and numbers a parser excludes
descriptionColumn(elements, th, Excluded(_)) ==
    squeeze(join(SelectSeq(trimmedTexts(SelectSeq(elements, LAMBDA e :
                               e.x >= th.description[1] - 5 /\ e.x < th.quantity[1] - 5)),
                           LAMBDA t : ~isNumeric(t) /\ ~Excluded(t)), " "))

\* parsePriceNearColumn of AddictParser and BoleroParser, each with its own
\* parsePrice; distances are doubled, so that the middle of two elements is
\* a whole number.  parsePrice always gives a number, so the first element
\* in the window gives the value when no candidate is price-like
parsePriceNearColumn(elements, xThreshold, parsePrice(_)) ==
    LET near == SelectSeq(sortByX(SelectSeq(elements, LAMBDA e :
                              abs(e.x - xThreshold[1]) < 35)),
                          LAMBDA e : trim(e.text) # "")
        within == [i \in 1..Len(near) |-> [x2 |-> 2 * near[i].x, text |-> trim(near[i].text)]]
        merged == [i \in 1..(Len(within) - 1) |->
                      [x2 |-> (within[i].x2 + within[i + 1].x2) \div 2,
                       text |-> within[i].text \o within[i + 1].text]]
        candidates == SelectSeq(within \o merged, LAMBDA c : isPriceLike(c.text))
        dist(c) == abs(c.x2 - 2 * xThreshold[1])
        best == CHOOSE i \in 1..Len(candidates) :
                    /\ \A j \in 1..Len(candidates) : dist(candidates[i]) <= dist(candidates[j])
                    /\ \A j \in 1..(i - 1) : dist(candidates[j]) > dist(candidates[i])
    IN  IF xThreshold = None \/ Len(within) = 0 THEN null
        ELSE IF Len(candidates) > 0 THEN parsePrice(candidates[best].text)
        ELSE parsePrice(within[1].text)

\* getNear of parseRow: the trimmed texts of the elements within 2.5 of a
\* column, none without the column
getNear(els, target) ==
    IF target = None THEN <<>>
    ELSE trimmedTexts(SelectSeq(els, LAMBDA e : abs(e.x - target[1]) < 25))

\* qtyCandidates.map(parseNumber).find(n => n !== null) ?? null
firstNumberOf(texts) ==
    LET quantities == SelectSeq([i \in 1..Len(texts) |-> parseNumber(texts[i])],
                                LAMBDA n : n # null)
    IN  IF Len(quantities) > 0 THEN quantities[1] ELSE null

\* the price near a column, or else the price of a price token of the row:
\* the last token for the total, the first for the unit price
nearOrToken(near, priceTokens, last) ==
    IF near = null /\ Len(priceTokens) >= 1
    THEN AddictParser_parsePrice(priceTokens[IF last THEN Len(priceTokens) ELSE 1])
    ELSE near

\* the end of parseRow: null without a SKU, a quantity, a unit price or a
\* total, the row otherwise
rowOrNone(skuCandidates, description, quantity, unitPrice, total) ==
    IF Len(skuCandidates) = 0 THEN None
    ELSE IF quantity = null \/ unitPrice = null \/ total = null THEN None
    ELSE Some(LineItem(skuCandidates[1], description, quantity, unitPrice, total))

\* the price-like texts right of the quantity column
AddictParser_priceTokens(els, th) ==
    SelectSeq(trimmedTexts(SelectSeq(els, LAMBDA e :
                  th.quantity = None \/ e.x > th.quantity[1])),
              isPriceLike)

\* AddictParser.parseRow on the elements sorted by x: the row, or None
AddictParser_parseSorted(els, th) ==
    rowOrNone(SelectSeq(getNear(els, th.sku), LAMBDA s :
                  ~includes(toLowerCase(s), "libell")
                  /\ toLowerCase(s) \notin {"q", "q.", "pu"}),
              IF th.description # None /\ th.quantity # None
              THEN descriptionColumn(els, th, LAMBDA t :
                       toLowerCase(t) \in {"q", "q.", "pu"} \/ isPriceLike(t))
              ELSE "",
              firstNumberOf(getNear(els, th.quantity)),
              nearOrToken(parsePriceNearColumn(els, th.unitPrice, AddictParser_parsePrice),
                          AddictParser_priceTokens(els, th), FALSE),
              nearOrToken(parsePriceNearColumn(els, th.total, AddictParser_parsePrice),
                          AddictParser_priceTokens(els, th), TRUE))

AddictParser_parseRow(elements, th) == AddictParser_parseSorted(sortByX(elements), th)

\* getContinuationDescription of AddictParser
AddictParser_getContinuationDescription(elements, th) ==
    IF th.description = None \/ th.quantity = None THEN ""
    ELSE descriptionColumn(elements, th, LAMBDA t :
             toLowerCase(t) \in {"q", "q.", "pu"} \/ isPriceShaped(t, Separators, FALSE))

\* String(n) for a whole number n >= 0
RECURSIVE digitsOf(_)
digitsOf(n) ==
    IF n < 10 THEN CharAt("0123456789", n + 1)
    ELSE digitsOf(n \div 10) \o CharAt("0123456789", (n % 10) + 1)

\* String(n) for a number: the shortest decimal text
numberText(n) ==
    LET RECURSIVE strip(_)
        strip(f) == IF f # "" /\ CharAt(f, Len(f)) = "0"
                    THEN strip(SubSeq(f, 1, Len(f) - 1)) ELSE f
        fraction == strip(SubSeq(digitsOf(10000 + n.frac), 2, 5))
    IN  (IF n.neg THEN "-" ELSE "") \o digitsOf(n.whole)
        \o (IF fraction = "" THEN "" ELSE "." \o fraction)

\* the pattern `${q}` matches s at i; a period in it matches any character
litAt(s, pat, i) ==
    /\ i + Len(pat) - 1 <= Len(s)
    /\ \A k \in 1..Len(pat) : CharAt(pat, k) = "." \/ CharAt(pat, k) = CharAt(s, i + k - 1)

\* (?:\.0+)?(?:\s|$) after a match of the pattern that ends before e, with
\* z zeros after a period at e: the first index after the match, or 0
endOfQuantity(s, e, z) ==
    IF z > 0 /\ e + 1 + z > Len(s) THEN e + 1 + z
    ELSE IF z > 0 /\ IsSpace(CharAt(s, e + 1 + z)) THEN e + 2 + z
    ELSE IF e > Len(s) THEN e
    ELSE IF IsSpace(CharAt(s, e)) THEN e + 1
    ELSE 0

\* the first index after the match whose number starts at i, or 0
endAt(s, pat, i) ==
    IF ~litAt(s, pat, i) THEN 0
    ELSE endOfQuantity(s, i + Len(pat),
             IF i + Len(pat) <= Len(s) /\ CharAt(s, i + Len(pat)) = "."
             THEN Len(runOf(SubSeq(s, i + Len(pat) + 1, Len(s)), {"0"})) ELSE 0)

\* s with its first match replaced by a space, given where the match
\* starting at each index ends
withoutMatch(s, ends) ==
    LET atStart(m) == m = 1 /\ ends[1] > 0
        starts == {m \in 1..Len(s) :
                      atStart(m) \/ (IsSpace(CharAt(s, m)) /\ ends[m + 1] > 0)}
        m == CHOOSE i \in starts : \A j \in starts : i <= j
        end == IF atStart(m) THEN ends[1] ELSE ends[m + 1]
    IN  IF starts = {} THEN squeeze(s)
        ELSE squeeze(SubSeq(s, 1, m - 1) \o " " \o SubSeq(s, end, Len(s)))

\* description.replace(new RegExp(`(?:^|\s)${q}(?:\.0+)?(?:\s|$)`), " ")
\* .replace(/\s+/g, " ").trim(): the first stand-alone occurrence of the
\* quantity is removed
matchEnds(s, pat) == [i \in 1..(Len(s) + 1) |-> endAt(s, pat, i)]

withoutQuantity(description, q) ==
    withoutMatch(description, matchEnds(description, numberText(q)))

\* the text of an optional description: description || ""
descriptionOf(item) == IF item.description = None THEN "" ELSE item.description[1]

\* the state of the loop over the lines before its first line
ScanStart ==
    [items |-> <<>>, pendingDesc |-> "", shippingFee |-> Number(FALSE, 0, 0),
     stopped |-> FALSE]

\* the branch of the loops of AddictParser.parse and BoleroParser.parse for
\* a line that parsed as a row: the pending text is prepended, the quantity
\* is removed from the description, and the total the PDF prints is kept
emitRow(s, row) ==
    LET withPending ==
            IF s.pendingDesc # ""
            THEN squeeze(s.pendingDesc \o " " \o descriptionOf(row))
            ELSE descriptionOf(row)
        description == withoutQuantity(withPending, row.quantity)
    IN  [s EXCEPT !.items = Append(@, [row EXCEPT !.description = Some(description)]),
                  !.pendingDesc = ""]

\* the branch for a line that did not parse as a row
\* the attachment to the first item instead of the last
attachContinuation_first(s, contDesc) ==
    IF contDesc = "" THEN s
    ELSE IF Len(s.items) > 0
    THEN [s EXCEPT !.items[1].description =
                       Some(squeeze(descriptionOf(s.items[1]) \o " " \o contDesc))]
    ELSE [s EXCEPT !.pendingDesc =
                       IF s.pendingDesc # "" THEN s.pendingDesc \o " " \o contDesc
                       ELSE contDesc]

attachContinuation(s, contDesc) ==
    IF contDesc = "" THEN s
    ELSE IF Len(s.items) > 0
    THEN [s EXCEPT !.items[Len(s.items)].description =
                       Some(squeeze(descriptionOf(s.items[Len(s.items)]) \o " " \o contDesc))]
    ELSE [s EXCEPT !.pendingDesc =
                       IF s.pendingDesc # "" THEN s.pendingDesc \o " " \o contDesc
                       ELSE contDesc]

\* the test of AddictParser.parse for a row that carries the shipping fee
isShippingLine(line, row) ==
    \/ includes(toLowerCase(descriptionOf(row)), "frais de port")
    \/ includes(toLowerCase(line.text), "frais de port")
    \/ includes(toLowerCase(line.text), "livraison")

\* the fee of a shipping row: its total, else its unit price, when positive
withShippingFee(s, row) ==
    IF positive(row.total) THEN [s EXCEPT !.shippingFee = row.total]
    ELSE IF positive(row.unitPrice) THEN [s EXCEPT !.shippingFee = row.unitPrice]
    ELSE s

\* the body of the loop of AddictParser.parse for a line below the header
\* and above the footer, given what parseRow and getContinuationDescription
\* returned for it
AddictParser_takeLine(s, line, row, contDesc) ==
    IF row = None THEN attachContinuation(s, contDesc)
    ELSE IF isShippingLine(line, row[1]) THEN withShippingFee(s, row[1])
    ELSE emitRow(s, row[1])

\* one turn of the loop of AddictParser.parse over the lines
AddictParser_scanLine(s, line, headerY, th) ==
    IF s.stopped \/ line.yPosition <= headerY + 1 THEN s
    ELSE IF \E mark \in {"TOTAL HT", "TOTAL TTC", "TVA", "NET"} :
                includes(toUpperCase(line.text), mark)
    THEN [s EXCEPT !.stopped = TRUE]
    ELSE AddictParser_takeLine(s, line, AddictParser_parseRow(line.items, th),
                               AddictParser_getContinuationDescription(line.items, th))

\* the loop over all lines
RECURSIVE AddictParser_scan(_, _, _, _)
AddictParser_scan(s, lines, headerY, th) ==
    IF Len(lines) = 0 THEN s
    ELSE AddictParser_scan(AddictParser_scanLine(s, lines[1], headerY, th),
                           Tail(lines), headerY, th)

\* what parse returns once the loop has ended in state s
scanResult(s, warning) == itemsResult(s.items, s.shippingFee, warning)

\* AddictParser.parse on concrete lines whose header is line h
AddictParser_parseBelow(lines, h) ==
    IF h = 0 THEN Fail("Addict header not found (Libelle/PU/Prix HT)")
    ELSE scanResult(AddictParser_scan(ScanStart, lines, lines[h].yPosition,
                                      columnThresholds(lines[h].items, AddictColumn)),
                    "No line items parsed for Addict")

AddictParser_parseRows(lines) ==
    AddictParser_parseBelow(lines, firstLine(lines, isAddictHeader))

---------------------------------------------------------------------------
(* BoleroParser: the same loop, with a fallback for lines that do not fit  *)
(* the columns and no footer test.  No element of the documents of the     *)
(* model is a lone euro sign, which is what parseByGlobalHeuristics and    *)
(* the amount of extractShippingAmount are built from.                     *)

\* the test of BoleroParser.parse for the header line
isBoleroHeader(line) ==
    LET up == toLowerCase(line.text)
    IN  /\ includes(up, "description")
        /\ includes(up, "article") \/ includes(up, "code")
        /\ includes(up, "quantity") \/ includes(up, "qty")
        /\ includes(up, "unit price")
        /\ \E w \in {"subtotal", "sub total", "sub-total", "total"} : includes(up, w)

\* the chain of tests on a header element of BoleroParser.parse
BoleroColumn(text) ==
    LET t == toLowerCase(text)
    IN  IF includes(t, "article") /\ includes(t, "code") THEN "sku"
        ELSE IF includes(t, "description") THEN "description"
        ELSE IF includes(t, "quantity") \/ t = "qty" THEN "quantity"
        ELSE IF includes(t, "unit") /\ includes(t, "price") THEN "unitPrice"
        ELSE IF \/ \E w \in {"subtotal", "sub total", "sub-total"} : includes(t, w)
                \/ (includes(t, "total") /\ ~includes(t, "unit"))
        THEN "total"
        ELSE ""

\* thresholds of a document without a header line
NoThresholds ==
    [c \in {"sku", "description", "quantity", "unitPrice", "total"} |-> None]

\* getContinuationDescription of BoleroParser
BoleroParser_getContinuationDescription(elements, th) ==
    IF th.description = None \/ th.quantity = None THEN ""
    ELSE descriptionColumn(elements, th, LAMBDA t :
             toLowerCase(t) \in {"q", "q."} \/ isPriceLike(t))

\* the column the quantity is looked for to the left of, without a
\* quantity column: the unit price column, else the total column
priceColumn(th) == IF th.unitPrice # None THEN th.unitPrice ELSE th.total

\* without a quantity column: the integer element left of the price column
\* and nearest to it, the first one without a price column
integerLeftOf(intTokens, unitX) ==
    LET best == CHOOSE i \in 1..Len(intTokens) :
                    \/ unitX = None /\ i = 1
                    \/ /\ unitX # None
                       /\ \A j \in 1..Len(intTokens) :
                              abs(intTokens[i].x - unitX[1]) <= abs(intTokens[j].x - unitX[1])
                       /\ \A j \in 1..(i - 1) :
                              abs(intTokens[j].x - unitX[1]) > abs(intTokens[i].x - unitX[1])
    IN  IF Len(intTokens) > 0 THEN parseNumber(trim(intTokens[best].text)) ELSE null

\* BoleroParser.parseRow on the elements sorted by x
BoleroParser_parseSorted(els, th) ==
    rowOrNone(SelectSeq(getNear(els, th.sku), LAMBDA s :
                  /\ \A w \in {"description", "unit", "price"} : ~includes(toLowerCase(s), w)
                  /\ toLowerCase(s) \notin {"q", "q."}),
              IF th.description # None /\ th.quantity # None
              THEN descriptionColumn(els, th, LAMBDA t :
                       \/ toLowerCase(t) \in {"q", "q."}
                       \/ (includes(toLowerCase(t), "unit") /\ includes(toLowerCase(t), "price"))
                       \/ isPriceLike(t))
              ELSE "",
              IF th.quantity # None THEN firstNumberOf(getNear(els, th.quantity))
              ELSE integerLeftOf(SelectSeq(els, LAMBDA e :
                                     /\ isInteger(trim(e.text))
                                     /\ (priceColumn(th) = None \/ e.x < priceColumn(th)[1])),
                                 priceColumn(th)),
              parsePriceNearColumn(els, th.unitPrice, BoleroParser_parsePrice),
              parsePriceNearColumn(els, th.total, BoleroParser_parsePrice))

\* BoleroParser.parseRow
BoleroParser_parseRow(elements, th) == BoleroParser_parseSorted(sortByX(elements), th)

\* the row parseRowByHeuristics returns: the quantity is removed from the
\* description
heuristicRow(supplierSku, description, quantity, unitPrice, total) ==
    Some(LineItem(supplierSku, withoutQuantity(description, quantity), quantity,
                  unitPrice, total))

\* parseRowByHeuristics once the SKU candidates are known
rowOfClean(els, priceTokens, qtyTokens, clean) ==
    LET \* [...qtyTokens].sort((a, b) => b.x - a.x)[0]
        rightmost == CHOOSE i \in 1..Len(qtyTokens) :
                         /\ \A j \in 1..Len(qtyTokens) : qtyTokens[j].x <= qtyTokens[i].x
                         /\ \A j \in 1..(i - 1) : qtyTokens[j].x < qtyTokens[i].x
        descParts == SelectSeq(els, LAMBDA e :
                         /\ e.x > clean[1].x /\ e.x < qtyTokens[1].x
                         /\ ~isPriceLike(e.text) /\ ~isNumeric(e.text)
                         /\ toLowerCase(e.text) \notin {"q", "q."}
                         /\ ~(includes(toLowerCase(e.text), "unit")
                              /\ includes(toLowerCase(e.text), "price")))
    IN  IF Len(clean) = 0 THEN None
        ELSE heuristicRow(clean[1].text, squeeze(join(itemTexts(descParts), " ")),
                          parseNumber(qtyTokens[rightmost].text),
                          IF Len(priceTokens) >= 2
                          THEN BoleroParser_parsePrice(priceTokens[Len(priceTokens) - 1].text)
                          ELSE Number(FALSE, 0, 0),
                          BoleroParser_parsePrice(priceTokens[Len(priceTokens)].text))

\* parseRowByHeuristics once the quantity candidates are known
rowOfQuantities(els, priceTokens, qtyTokens) ==
    IF Len(qtyTokens) = 0 THEN None
    ELSE rowOfClean(els, priceTokens, qtyTokens,
             SelectSeq(SelectSeq(els, LAMBDA e : e.x < qtyTokens[1].x), LAMBDA e :
                 \A i \in 1..Len(e.text) : CharAt(e.text, i) \in Word \cup {".", "-"}))

\* parseRowByHeuristics once the price tokens are known: the quantity is an
\* integer left of the unit price, or of the total without a unit price
rowOfPrices(els, priceTokens) ==
    LET totalTok == priceTokens[Len(priceTokens)]
        unitTok == priceTokens[Len(priceTokens) - 1]
        priceX == IF Len(priceTokens) >= 2 /\ unitTok.x < totalTok.x
                  THEN unitTok.x ELSE totalTok.x
    IN  IF Len(priceTokens) = 0 THEN None
        ELSE rowOfQuantities(els, priceTokens,
                 SelectSeq(els, LAMBDA e : e.x < priceX /\ isInteger(e.text)))

\* parseRowByHeuristics on the non-empty elements sorted by x
rowOfSorted(els) ==
    IF Len(els) = 0 THEN None
    ELSE IF \E w \in {"shipping", "handling", "payment"} :
                includes(toLowerCase(join(itemTexts(els), "")), w)
    THEN None
    ELSE rowOfPrices(els, SelectSeq(els, LAMBDA e : isPriceLike(e.text)))

\* BoleroParser.parseRowByHeuristics
parseRowByHeuristics(elements) ==
    rowOfSorted(sortByX(SelectSeq([i \in 1..Len(elements) |->
                                      [x |-> elements[i].x, text |-> trim(elements[i].text)]],
                                  LAMBDA e : e.text # "")))

\* a ?? b for two optional rows
orElse(a, b) == IF a # None THEN a ELSE b

\* the body of the loop of BoleroParser.parse for a line below the header
BoleroParser_takeLine(s, row, contDesc) ==
    IF row = None THEN attachContinuation(s, contDesc) ELSE emitRow(s, row[1])

\* one turn of the loop of BoleroParser.parse over the lines; headerY is
\* None for a document without a header line
BoleroParser_scanLine(s, line, headerY, th) ==
    IF headerY # None /\ line.yPosition <= headerY[1] + 1 THEN s
    ELSE BoleroParser_takeLine(s, orElse(BoleroParser_parseRow(line.items, th),
                                         parseRowByHeuristics(line.items)),
                               BoleroParser_getContinuationDescription(line.items, th))

RECURSIVE BoleroParser_scan(_, _, _, _)
BoleroParser_scan(s, lines, headerY, th) ==
    IF Len(lines) = 0 THEN s
    ELSE BoleroParser_scan(BoleroParser_scanLine(s, lines[1], headerY, th),
                           Tail(lines), headerY, th)

\* /[0-9.,]/.test(text)
hasAmountChar(text) ==
    \E i \in 1..Len(text) : IsDigit(CharAt(text, i)) \/ CharAt(text, i) \in {".", ","}

\* the while loop of readValueAfterEuro from element j on: the texts of the
\* elements are concatenated up to the second digit after a separator
RECURSIVE readValueAfterEuro(_, _, _, _, _)
readValueAfterEuro(els, j, s, seenSep, decimals) ==
    IF j > Len(els) \/ ~hasAmountChar(els[j].text) THEN s
    ELSE IF els[j].text \in {",", "."}
    THEN readValueAfterEuro(els, j + 1, s \o els[j].text, TRUE, 0)
    ELSE IF seenSep /\ hasDigit(els[j].text)
    THEN IF decimals + 1 >= 2 THEN s \o els[j].text
         ELSE readValueAfterEuro(els, j + 1, s \o els[j].text, TRUE, decimals + 1)
    ELSE readValueAfterEuro(els, j + 1, s \o els[j].text, seenSep, decimals)

\* the amount of the rightmost of the euro signs that are followed by a
\* price, 0 without one
amountAfterEuro(els, euroIdxs, value(_)) ==
    LET vals == {i \in euroIdxs : value(i) # null}
    IN  IF vals = {} THEN Number(FALSE, 0, 0)
        ELSE value(CHOOSE i \in vals : \A k \in vals :
                       els[k].x < els[i].x \/ (els[k].x = els[i].x /\ k >= i))

\* extractShippingAmount on the non-empty elements of the shipping line,
\* sorted by x
shippingAmountOf(els) ==
    amountAfterEuro(els, {i \in 1..Len(els) : els[i].text = "€"},
                    LAMBDA i : BoleroParser_parsePrice(
                                   readValueAfterEuro(els, i + 1, "", FALSE, 0)))

\* line.items.map(trim).join("").toLowerCase() holds shipping and handl
isShippingHandling(line) ==
    /\ includes(toLowerCase(join([i \in 1..Len(line.items) |-> trim(line.items[i].text)], "")),
                "shipping")
    /\ includes(toLowerCase(join([i \in 1..Len(line.items) |-> trim(line.items[i].text)], "")),
                "handl")

\* BoleroParser.extractShippingAmount: the amount of the first "Shipping &
\* handling" line of the document, null without one
extractShippingAmount(lines) ==
    IF firstLine(lines, isShippingHandling) = 0 THEN null
    ELSE shippingAmountOf(sortByX(SelectSeq(
             [i \in 1..Len(lines[firstLine(lines, isShippingHandling)].items) |->
                 [x |-> lines[firstLine(lines, isShippingHandling)].items[i].x,
                  text |-> trim(lines[firstLine(lines, isShippingHandling)].items[i].text)]],
             LAMBDA e : e.text # "")))

\* what BoleroParser.parse does after its loop has ended in state s:
\* parseByGlobalHeuristics finds no row, and the shipping amount is stored
withShipping(s, shipping) ==
    IF shipping # null THEN [s EXCEPT !.shippingFee = shipping] ELSE s

BoleroParser_finish(s, lines) ==
    scanResult(withShipping(s, extractShippingAmount(lines)),
               "No line items parsed for Bolero")

\* the header line of a document for BoleroParser, given its index: its y
\* and the thresholds
headerAt(lines, h) ==
    IF h = 0 THEN [headerY |-> None, thresholds |-> NoThresholds]
    ELSE [headerY |-> Some(lines[h].yPosition),
          thresholds |-> columnThresholds(lines[h].items, BoleroColumn)]

BoleroParser_header(lines) == headerAt(lines, firstLine(lines, isBoleroHeader))

\* BoleroParser.parse on concrete lines with header h
BoleroParser_parseBelow(lines, h) ==
    BoleroParser_finish(BoleroParser_scan(ScanStart, lines, h.headerY, h.thresholds),
                        lines)

BoleroParser_parseRows(lines) == BoleroParser_parseBelow(lines, BoleroParser_header(lines))

---------------------------------------------------------------------------
(* The table interpreter of PythonTableParser.  A table is its headers and *)
(* its rows of cells; data[1] is the header row as the extractor repeats   *)
(* it, and an empty cell is "".  The headers of the tables of the model    *)
(* name at least three columns, so identifyColumns never infers a column   *)
(* from the data, and no cell holds a date or an invoice number.           *)

\* row[index] for a 0-based index, "" where the row has no such cell
cellAt(row, index) == IF index + 1 \in 1..Len(row) THEN row[index + 1] ELSE ""

\* parseInt(s, 10): the whole number a text starts with, NaN without one
parseIntOf(s) ==
    LET t == trimStart(s)
        signed == t # "" /\ CharAt(t, 1) \in {"-", "+"}
        int == digitPrefix(IF signed THEN SubSeq(t, 2, Len(t)) ELSE t)
    IN  IF int = "" THEN NaN
        ELSE Number(signed /\ CharAt(t, 1) = "-", parseInt(int), 0)

\* a > b for two numbers
greater(a, b) == toUnits(a) > toUnits(b)

\* the first match of /(\d+(?:[.,]\d+)?)/ in a text when decimals = 0, of
\* /(\d+[.,]\d{2,})/ when decimals = 2; "" without a match.  The optional
\* currency prefix of the patterns of the code does not move the group
firstNumber(text, decimals) ==
    LET matchAt(i) ==
            LET int == digitPrefix(SubSeq(text, i, Len(text)))
                rest == SubSeq(text, i + Len(int), Len(text))
                dec == IF rest # "" /\ CharAt(rest, 1) \in Separators
                       THEN digitPrefix(SubSeq(rest, 2, Len(rest))) ELSE ""
            IN  IF int = "" THEN ""
                ELSE IF Len(dec) >= decimals /\ dec # ""
                THEN int \o CharAt(rest, 1) \o dec
                ELSE IF decimals = 0 THEN int
                ELSE ""
        starts == {i \in 1..Len(text) : matchAt(i) # ""}
    IN  IF starts = {} THEN ""
        ELSE matchAt(CHOOSE i \in starts : \A j \in starts : i <= j)

ShippingKeywords ==
    {"shipping", "spedizione", "envío", "livraison", "transport", "fracht", "frais"}

hasShippingKeyword(text) ==
    \E w \in ShippingKeywords : includes(toLowerCase(text), w)

\* PythonTableParser.isShippingRow
isShippingRow(row) == \E i \in 1..Len(row) : hasShippingKeyword(row[i])

\* PythonTableParser.isYamamotoFormat
isYamamotoFormat(dataRows) ==
    /\ Len(dataRows) = 2
    /\ Cardinality({i \in 1..Len(dataRows[2]) : i <= 8 /\ includes(dataRows[2][i], "\n")}) >= 3

\* PythonTableParser.parseYamamotoQuantity
parseYamamotoQuantity(qtyStr) ==
    LET cleanStr == trim(qtyStr)
        parts == split(cleanStr, {","})
        qty == IF Len(parts) = 2 /\ parts[2] \in {"00", "0"}
               THEN parseIntOf(parts[1]) ELSE parseIntOf(cleanStr)
    IN  IF isNaN(qty) THEN null ELSE qty

\* cell ? String(cell).split('\n') : []
cellLines(cell) == IF cell = "" THEN <<>> ELSE split(cell, {"\n"})

\* the smallest of a set of whole numbers
Min(S) == CHOOSE m \in S : \A n \in S : m <= n

\* the item parseYamamotoFormat pushes for one line of the cells, if any
yamamotoItem(sku, description, quantity, unitPrice) ==
    IF ~isTableSku(sku) \/ quantity = null \/ unitPrice = null THEN <<>>
    ELSE <<[supplierSku |-> sku, description |-> Some(description),
            quantity |-> quantity, unitPrice |-> unitPrice,
            total |-> roundTo(times(unitPrice, quantity), 2)]>>

\* descriptions[i], with the next line when that names a customs tariff
descriptionAt(descriptions, i) ==
    LET nextLine == IF Len(descriptions) > i THEN trim(descriptions[i + 1]) ELSE ""
    IN  IF Len(descriptions) >= i
        THEN trim(descriptions[i])
             \o (IF \E w \in {"tariff:", "Custom", "custom"} : includes(nextLine, w)
                 THEN " " \o nextLine ELSE "")
        ELSE ""

\* a loop that drops the codes of other families before it pairs the lines
yamamotoItems_compacted(skus, descriptions, quantities, unitPrices, amounts) ==
    flat([i \in 1..Min({Len(SelectSeq(skus, LAMBDA s : isTableSku(trim(s)))),
                        Len(quantities), Len(unitPrices), Len(amounts)}) |->
             yamamotoItem(trim(SelectSeq(skus, LAMBDA s : isTableSku(trim(s)))[i]),
                          descriptionAt(descriptions, i),
                          parseYamamotoQuantity(trim(quantities[i])),
                          PythonTableParser_parsePrice(trim(unitPrices[i]), TRUE))])

\* the loop of parseYamamotoFormat over the lines of the cells
yamamotoItems(skus, descriptions, quantities, unitPrices, amounts) ==
    flat([i \in 1..Min({Len(skus), Len(quantities), Len(unitPrices), Len(amounts)}) |->
             yamamotoItem(trim(skus[i]), descriptionAt(descriptions, i),
                          parseYamamotoQuantity(trim(quantities[i])),
                          PythonTableParser_parsePrice(trim(unitPrices[i]), TRUE))])

\* PythonTableParser.parseYamamotoFormat
parseYamamotoFormat(dataRows) ==
    IF Len(dataRows) < 2 THEN <<>>
    ELSE yamamotoItems(cellLines(cellAt(dataRows[2], 0)), cellLines(cellAt(dataRows[2], 1)),
                       cellLines(cellAt(dataRows[2], 3)), cellLines(cellAt(dataRows[2], 4)),
                       cellLines(cellAt(dataRows[2], 6)))

\* the 0-based index of the last header the classifier gives column c, or
\* None: the forEach of identifyColumns and of parseRabekoFormat
columnOf(headers, column(_), c) ==
    LET hits == {i \in 1..Len(headers) : column(headers[i]) = c}
    IN  IF hits = {} THEN None
        ELSE Some((CHOOSE i \in hits : \A j \in hits : j <= i) - 1)

columnMap(headers, column(_)) ==
    [c \in {"sku", "description", "quantity", "unitPrice", "total"} |->
        columnOf(headers, column, c)]

\* the chain of tests on a header of PythonTableParser.identifyColumns
identifyColumn(header) ==
    LET normalized == toLowerCase(header)
        has(w) == includes(normalized, w)
    IN  IF has("item") \/ has("sku") \/ has("code") \/ has("réf") \/ has("ref") THEN "sku"
        ELSE IF has("description") \/ has("libell") \/ has("product") \/ has("name")
        THEN "description"
        ELSE IF has("qty") \/ has("quantity") \/ normalized = "q."
                \/ startsWith(normalized, "q ")
        THEN "quantity"
        ELSE IF (has("unit") /\ has("price")) \/ normalized = "pu" THEN "unitPrice"
        ELSE IF has("amount") \/ has("total") \/ has("prix ht") \/ has("montant ht")
        THEN "total"
        ELSE ""

\* PythonTableParser.isHeaderRow
isHeaderRow(row, headers) ==
    /\ Len(headers) = Len(row)
    /\ \A i \in 1..Len(headers) : toLowerCase(headers[i]) = toLowerCase(row[i])

\* the cell of a row in column c, "" without the column or the cell
cellOf(row, map, c) == IF map[c] = None THEN "" ELSE cellAt(row, map[c][1])

\* what parseRow keeps of a cell: undefined for an empty cell and for a
\* text that is no number
valueOf(cell, value) ==
    IF cell = "" \/ isNaN(value) \/ value = null THEN undefined ELSE value

\* the end of parseRow: null without a SKU or a quantity; the total is
\* computed from a unit price, a missing unit price from the total
rowItem(supplierSku, description, quantity, unitPrice, total) ==
    IF supplierSku = "" \/ falsy(quantity) THEN None
    ELSE Some([supplierSku |-> supplierSku, description |-> description,
               quantity |-> quantity,
               unitPrice |-> IF unitPrice # undefined THEN unitPrice
                             ELSE IF total # undefined
                             THEN roundTo(dividedBy(total, quantity), 4)
                             ELSE undefined,
               total |-> IF unitPrice # undefined
                         THEN roundTo(times(unitPrice, quantity), 2)
                         ELSE total])

\* PythonTableParser.parseRow: the line item of a row, or None
PythonTableParser_parseRow(row, map, isSwansonTable) ==
    rowItem(trim(cellOf(row, map, "sku")),
            IF cellOf(row, map, "description") = "" THEN None
            ELSE Some(trim(cellOf(row, map, "description"))),
            valueOf(cellOf(row, map, "quantity"),
                    parseFloat(replaceFirst(removeChars(trim(cellOf(row, map, "quantity")),
                                                        {" ", "\t", "\n"}), ",", "."))),
            valueOf(cellOf(row, map, "unitPrice"),
                    PythonTableParser_parsePrice(trim(cellOf(row, map, "unitPrice")),
                                                 isSwansonTable)),
            valueOf(cellOf(row, map, "total"),
                    PythonTableParser_parsePrice(trim(cellOf(row, map, "total")),
                                                 isSwansonTable)))

\* PythonTableParser.isRabekoFormat
isRabekoFormat(headers, dataRows) ==
    \/ /\ Len(headers) >= 4
       /\ \A w \in {"description", "quantité", "unitaire", "total"} :
              includes(toLowerCase(join(headers, " ")), w)
    \/ /\ Len(dataRows) > 2
       /\ \E i \in 2..Len(dataRows) :
              /\ i <= 5
              /\ Len(dataRows[i]) >= 4
              /\ \E name \in {"zero confiture", "sirop zero", "sauce zero",
                              "choco sirop", "salted caramel"} :
                     includes(toLowerCase(dataRows[i][1]), name)

\* the chain of tests on a header of PythonTableParser.parseRabekoFormat
rabekoColumn(header) ==
    LET normalized == toLowerCase(header)
    IN  IF includes(normalized, "description") THEN "description"
        ELSE IF includes(normalized, "quantité") THEN "quantity"
        ELSE IF includes(normalized, "unitaire") THEN "unitPrice"
        ELSE IF includes(normalized, "tva") THEN "vat"
        ELSE IF includes(normalized, "total") THEN "total"
        ELSE ""

\* the characters of code 32 to 126 in the order of their codes; the
\* backslash and the grave accent, which no text of the model holds, are
\* marked by a section sign
Printable ==
    " !\"#$%&'()*+,-./0123456789:;<=>?@" \o UpperAlpha \o "[§]^_§" \o LowerAlpha \o "{|}~"

\* s.charCodeAt(i) for the characters of the model
charCode(c) ==
    IF c = "é" THEN 233
    ELSE 31 + CHOOSE i \in 1..Len(Printable) : CharAt(Printable, i) = c

\* n.toString(16).toUpperCase() for 0 <= n < 65536, in at least width digits
RECURSIVE hex(_, _)
hex(n, width) ==
    IF n = 0 /\ width <= 0 THEN ""
    ELSE hex(n \div 16, width - 1) \o CharAt("0123456789ABCDEF", (n % 16) + 1)

\* hash = ((hash << 5) - hash) + char; hash = hash & hash: the 32-bit hash
\* as its two 16-bit halves <<high, low>>
RECURSIVE hashOf(_, _)
hashOf(h, s) ==
    IF s = "" THEN h
    ELSE LET low == h[2] * 31 + charCode(CharAt(s, 1))
             high == h[1] * 31 + low \div 65536
         IN  hashOf(<<high % 65536, low % 65536>>, SubSeq(s, 2, Len(s)))

\* a pseudo-SKU that numbers the calls of parse instead of hashing the text
generatePseudoSku_perCall(description) ==
    "RABEKO_" \o (IF pc = "tables" THEN "1" ELSE "2")

\* PythonTableParser.generatePseudoSku
generatePseudoSku(description) ==
    LET h == hashOf(<<0, 0>>, description)
        negative == h[1] >= 32768
        \* Math.abs of the signed value: the complement of a negative one
        low == IF negative THEN (65536 - h[2]) % 65536 ELSE h[2]
        high == IF negative THEN (65535 - h[1] + (IF h[2] = 0 THEN 1 ELSE 0)) % 65536
                ELSE h[1]
        digits == IF high = 0 THEN (IF low = 0 THEN "0" ELSE hex(low, 0))
                  ELSE hex(high, 0) \o hex(low, 4)
    IN  "RABEKO_" \o Substring(digits, 1, 8)

\* what parseRabekoFormat keeps of a cell: the default for an empty cell
\* and for a text that is no number
valueOr(cell, value, default) ==
    IF cell # "" /\ ~isNaN(value) /\ value # null THEN value ELSE default

\* the quantity of a Rabeko row: a whole number above 0, else 1
rabekoQuantity(cell, value) ==
    IF cell # "" /\ ~isNaN(value) /\ positive(value) THEN value ELSE Number(FALSE, 1, 0)

\* the item parseRabekoFormat pushes for a row, if any: the total is the
\* printed one when the row has a total cell
rabekoItem(row, description, quantity, unitPrice, totalCell, printed) ==
    IF \A i \in 1..Len(row) : trim(row[i]) = "" THEN <<>>
    ELSE IF description = "" THEN <<>>
    ELSE IF includes(toLowerCase(description), "transport") THEN <<>>
    ELSE <<[supplierSku |-> generatePseudoSku(description),
            description |-> Some(description), quantity |-> quantity,
            unitPrice |-> unitPrice,
            total |-> IF totalCell # "" THEN printed
                      ELSE roundTo(times(unitPrice, quantity), 2)]>>

\* the body of the loop of parseRabekoFormat
rabekoRow(row, map) ==
    rabekoItem(row, trim(cellOf(row, map, "description")),
               rabekoQuantity(cellOf(row, map, "quantity"),
                              parseIntOf(replaceFirst(trim(cellOf(row, map, "quantity")),
                                                      ",", ""))),
               valueOr(cellOf(row, map, "unitPrice"),
                       PythonTableParser_parsePrice(trim(cellOf(row, map, "unitPrice")), TRUE),
                       Number(FALSE, 0, 0)),
               cellOf(row, map, "total"),
               valueOr(cellOf(row, map, "total"),
                       PythonTableParser_parsePrice(trim(cellOf(row, map, "total")), TRUE),
                       Number(FALSE, 0, 0)))

\* PythonTableParser.parseRabekoFormat
parseRabekoFormat(dataRows, headers) ==
    IF Len(dataRows) < 2 THEN <<>>
    ELSE flat([i \in 1..(Len(dataRows) - 1) |->
                  rabekoRow(dataRows[i + 1], columnMap(headers, rabekoColumn))])

\* headers.some(...) of parseTableForLineItems: a Swanson table
isSwansonTable(headers) ==
    \E i \in 1..Len(headers) :
        \/ includes(toLowerCase(headers[i]), "exp. date")
        \/ includes(toLowerCase(headers[i]), "unit price")

\* headers.some(...) of parseTableForLineItems: an Addict table
isAddictTable(headers) ==
    \E i \in 1..Len(headers) :
        \/ includes(toLowerCase(headers[i]), "libell")
        \/ includes(toLowerCase(headers[i]), "prix ht")
        \/ toLowerCase(headers[i]) \in {"pu", "q."}

\* what the loop of parseTableForLineItems pushes for a parsed row: in an
\* Addict table the total is computed again from the unit price
pushed(lineItem, addict) ==
    IF lineItem = None THEN <<>>
    ELSE IF addict /\ lineItem[1].unitPrice # undefined
    THEN <<[lineItem[1] EXCEPT !.total =
                roundTo(times(lineItem[1].unitPrice, lineItem[1].quantity), 2)]>>
    ELSE lineItem

\* the loop of parseTableForLineItems over the rows of a generic table; the
\* value of extractShippingFee for a shipping row of a Swanson table is not
\* used
genericItems(dataRows, headers, map, swanson, addict) ==
    flat([i \in 1..Len(dataRows) |->
             IF i = 1 /\ isHeaderRow(dataRows[i], headers) THEN <<>>
             ELSE IF swanson /\ isShippingRow(dataRows[i]) THEN <<>>
             ELSE pushed(PythonTableParser_parseRow(dataRows[i], map, swanson), addict)])

\* PythonTableParser.parseTableForLineItems
parseTableForLineItems(table) ==
    IF isYamamotoFormat(table.data) THEN parseYamamotoFormat(table.data)
    ELSE IF isRabekoFormat(table.headers, table.data)
    THEN parseRabekoFormat(table.data, table.headers)
    ELSE genericItems(table.data, table.headers, columnMap(table.headers, identifyColumn),
                      isSwansonTable(table.headers), isAddictTable(table.headers))

\* parsePrice of the number a pattern found in a cell, null without one
amountOf(number) ==
    IF number = "" THEN null ELSE PythonTableParser_parsePrice(number, FALSE)

\* the amounts extractMetadataFromTables reads from a table: from every
\* cell of a table with a shipping header, from every cell that names
\* shipping, and from every cell of a shipping row
shippingAmounts(t, cells, headerText) ==
    {amountOf(firstNumber(t.data[c[1]][c[2]], 2)) :
        c \in {d \in cells : \/ includes(headerText, "shipping")
                             \/ includes(headerText, "spedizione")
                             \/ hasShippingKeyword(t.data[d[1]][d[2]])}}
    \cup {amountOf(firstNumber(t.data[c[1]][c[2]], 0)) :
             c \in {d \in cells : isShippingRow(t.data[d[1]])}}

\* the cells of a table of at most 8 columns
cellsOf(t) == {c \in (1..Len(t.data)) \X (1..8) : c[2] <= Len(t.data[c[1]])}

\* the greatest of a set of amounts, 0 for the empty set
greatest(fees) ==
    IF fees = {} THEN Number(FALSE, 0, 0)
    ELSE CHOOSE v \in fees : \A w \in fees : ~greater(w, v)

\* the shipping fee PythonTableParser.extractMetadataFromTables stores: the
\* greatest amount above 0 it reads from the tables, 0 when there is none
extractMetadataFromTables(tbls) ==
    greatest({v \in UNION {shippingAmounts(tbls[k], cellsOf(tbls[k]),
                                           toLowerCase(join(tbls[k].headers, " "))) :
                              k \in 1..Len(tbls)} : positive(v)})

\* PythonTableParser.convertTablesToInvoiceData
convertTablesToInvoiceData(tbls) ==
    InvoiceData(flat([k \in 1..Len(tbls) |-> parseTableForLineItems(tbls[k])]),
                extractMetadataFromTables(tbls))

\* PythonTableParser.parse once the extractor has returned its tables
PythonTableParser_parseTables(tbls) ==
    IF Len(tbls) = 0 THEN Fail("No tables found in PDF using Python extraction")
    ELSE Ok(convertTablesToInvoiceData(tbls), None)

---------------------------------------------------------------------------
(* Rows of the position-based strategies: the lines of a document are      *)
(* drawn from the kinds of line an invoice of the supplier holds, and the  *)
(* strategy selected for the supplier parses them.                         *)

\* the most lines a document of the model has besides its header
MaxRows == 2

\* a line moved to y
atY(line, y) ==
    [line EXCEPT !.yPosition = y,
                 !.items = [i \in 1..Len(line.items) |-> [line.items[i] EXCEPT !.y = y]]]

\* the sequences of at most k lines drawn from kinds, line i at y = 100 * i + 100
RECURSIVE Documents(_, _)
Documents(kinds, k) ==
    IF k = 0 THEN {<<>>}
    ELSE LET shorter == Documents(kinds, k - 1)
         IN  shorter \cup {Append(d, atY(r, 100 * Len(d) + 200)) :
                              d \in {e \in shorter : Len(e) = k - 1}, r \in kinds}

\* with and without a header line above the rows
WithHeader(header, docs) == docs \cup {<<atY(header, 100)>> \o d : d \in docs}

\* a Yamamoto invoice: a discount with negative prices, an item whose
\* printed amount is not quantity times price, an item with the quantity in
\* the PZ element, a free item, a product without a code, and the totals
\* line
YamamotoHeader ==
    TextLine(0, <<<<20, "ITEM">>, <<100, "DESCRIPTION">>, <<340, "Q.TY">>,
                  <<400, "UNIT PRICE">>, <<480, "AMOUNT">>>>)

YamamotoRows ==
    {TextLine(0, <<<<20, "FITT003">>, <<100, "Sconto extra">>, <<300, "PZ">>,
                   <<340, "1,00">>, <<400, "-0,31">>, <<480, "-0,31">>, <<540, "ESC15">>>>),
     TextLine(0, <<<<20, "IAF12">>, <<100, "Whey 2 kg">>, <<300, "PZ">>,
                   <<340, "2,00">>, <<400, "10,00">>, <<480, "25,00">>, <<540, "NI22">>>>),
     TextLine(0, <<<<20, "YAM7">>, <<100, "Bar">>, <<300, "PZ 3,00">>,
                   <<400, "2,50">>, <<480, "7,50">>>>),
     TextLine(0, <<<<20, "FITT001">>, <<100, "Spese di spedizione">>, <<300, "PZ">>,
                   <<340, "1,00">>, <<400, "0,00">>, <<480, "0,00">>>>),
     TextLine(0, <<<<100, "Protein Powder 25kg">>, <<300, "PZ">>,
                   <<340, "5,00">>, <<400, "12,50">>, <<480, "62,50">>>>),
     TextLine(0, <<<<300, "Total">>, <<480, "32,19">>>>)}

\* an Addict invoice: two items, a line of description only, the shipping
\* row, the totals line, a subtotal line, and an item named after transport
AddictHeader ==
    TextLine(0, <<<<20, "Ref">>, <<100, "Libelle">>, <<300, "Q.">>,
                  <<400, "PU">>, <<500, "Prix HT">>>>)

AddictRows ==
    {TextLine(0, <<<<20, "A1">>, <<100, "Whey 2 kg">>, <<300, "2">>,
                   <<400, "10,00">>, <<500, "25,00">>>>),
     TextLine(0, <<<<20, "B7">>, <<100, "Bar">>, <<300, "3">>,
                   <<400, "2,50">>, <<500, "7,50">>>>),
     TextLine(0, <<<<100, "vanilla">>>>),
     TextLine(0, <<<<20, "PORT">>, <<100, "Frais de port">>, <<300, "1">>,
                   <<400, "12,00">>, <<500, "12,00">>>>),
     TextLine(0, <<<<400, "Total HT">>, <<500, "32,19">>>>),
     TextLine(0, <<<<400, "Subtotal">>, <<500, "32,19">>>>),
     TextLine(0, <<<<20, "T1">>, <<100, "Transport box">>, <<300, "1">>,
                   <<400, "5,00">>, <<500, "5,00">>>>)}

\* a Bolero invoice: two items, a line of description only, the shipping
\* line, the totals line, and an item whose elements miss the columns
BoleroHeader ==
    TextLine(0, <<<<20, "Description">>, <<200, "Article code">>, <<300, "Quantity">>,
                  <<400, "Unit price">>, <<500, "Subtotal">>>>)

BoleroRows ==
    {TextLine(0, <<<<20, "Whey 2 kg">>, <<200, "BO-1">>, <<300, "2">>,
                   <<400, "10,00">>, <<500, "25,00">>>>),
     TextLine(0, <<<<20, "Bar">>, <<200, "4711">>, <<300, "3">>,
                   <<400, "2,50">>, <<500, "7,50">>>>),
     TextLine(0, <<<<20, "vanilla">>>>),
     TextLine(0, <<<<20, "Shipping & handling">>, <<500, "12,00">>>>),
     TextLine(0, <<<<400, "Total">>, <<500, "32,19">>>>),
     TextLine(0, <<<<60, "X9">>, <<100, "Drink">>, <<250, "4">>,
                   <<440, "1,00">>, <<560, "4,00">>>>)}

\* the strategies whose rows are modelled, each with its documents
RowDocuments ==
    [YamamotoParser |-> WithHeader(YamamotoHeader, Documents(YamamotoRows, MaxRows)),
     AddictParser   |-> WithHeader(AddictHeader, Documents(AddictRows, MaxRows)),
     BoleroParser   |-> WithHeader(BoleroHeader, Documents(BoleroRows, MaxRows))]

\* parser.parse(textLines) on concrete lines
parseRows(p, lines) ==
    CASE p = "YamamotoParser" -> YamamotoParser_parseRows(lines)
      [] p = "AddictParser"   -> AddictParser_parseRows(lines)
      [] p = "BoleroParser"   -> BoleroParser_parseRows(lines)

\* headerLine.items.sort(...) of YamamotoParser.setupColumnDetection sorts
\* the elements of the header line of its argument in place
setupColumnDetection(lines) ==
    LET isHeader(line) ==
            \A label \in {"ITEM", "DESCRIPTION", "UNIT PRICE"} :
                includes(toUpperCase(line.text), label)
        h == firstLine(lines, isHeader)
    IN  IF h = 0 THEN lines
        ELSE [lines EXCEPT ![h].items = sortByX(@)]

\* the sequences of at most k rows drawn from kinds
RECURSIVE Rows(_, _)
Rows(kinds, k) ==
    IF k = 0 THEN {<<>>}
    ELSE LET shorter == Rows(kinds, k - 1)
         IN  shorter \cup {Append(d, r) : d \in {e \in shorter : Len(e) = k - 1}, r \in kinds}

\* a table as the extractor delivers it: its headers, and its rows with the
\* header row first
Table(headers, rows) == [headers |-> headers, data |-> <<headers>> \o rows]

\* the rows of a table of five columns (code, name, quantity, unit price,
\* amount): an item whose printed amount is not quantity times price, a
\* product without a code, a shipping row, an item without prices, an item
\* without a unit price, and an item with a price of three decimals
TableRows ==
    {<<"A1", "Whey 2 kg", "2", "10,00", "25,00">>,
     <<"", "Protein Powder 25kg", "5", "12,50", "62,50">>,
     <<"PORT", "Frais de port", "1", "12,00", "12,00">>,
     <<"B7", "Bar", "3", "", "">>,
     <<"C3", "Gel", "3", "", "10,00">>,
     <<"D4", "Omega", "2", "10,125", "20,25">>}

\* the headers of an Addict table, of a Swanson table and of a table of
\* neither supplier
TableHeaders ==
    {<<"Ref", "Libelle", "Q.", "PU", "Prix HT">>,
     <<"Item", "Description", "Qty", "Unit Price", "Amount">>,
     <<"Code", "Name", "Qty", "Prix", "Total">>}

\* a Rabeko table: an item whose printed total is not quantity times price,
\* the transport row, a delivery row, and an item with a decimal quantity
\* and no printed total
RabekoHeaders == <<"Description", "Quantité", "Prix unitaire", "TVA", "Total">>

RabekoRows ==
    {<<"Sirop zero", "2", "10,00", "21%", "25,00">>,
     <<"Transport", "1", "12,00", "21%", "12,00">>,
     <<"Frais de livraison", "1", "12,00", "6%", "12,00">>,
     <<"Sauce zero caramel salted", "2,00", "3,00", "6%", "">>}

\* the items of a Yamamoto table, which the extractor delivers as one row
\* whose cells hold one line per item
YamamotoHeaders == <<"ITEM", "DESCRIPTION", "U.M.", "Q.TY", "UNIT PRICE", "VAT", "AMOUNT">>

YamamotoCells ==
    {<<"FITT003", "Sconto extra", "PZ", "1,00", "-0,31", "ESC15", "-0,31">>,
     <<"IAF12", "Whey 2 kg", "PZ", "2,00", "10,00", "NI22", "25,00">>,
     <<"FITT001", "Spese di spedizione", "PZ", "1,00", "149,53", "NI22", "149,53">>}

joined(items) ==
    [c \in 1..7 |-> join([i \in 1..Len(items) |-> items[i][c]], "\n")]

\* the table lists of the model: no table, or one table
Tables ==
    {Table(h, rows) : h \in TableHeaders, rows \in Rows(TableRows, MaxRows)}
    \cup {Table(RabekoHeaders, rows) : rows \in Rows(RabekoRows, MaxRows)}
    \cup {Table(YamamotoHeaders, <<joined(items)>>) :
              items \in {r \in Rows(YamamotoCells, MaxRows) : Len(r) >= 2}}

TableLists == {<<>>} \cup {<<t>> : t \in Tables}

InitRows ==
    /\ \/ /\ pc = "lines"
          /\ \E p \in DOMAIN RowDocuments :
                 /\ parser = Some(p)
                 /\ textLines \in RowDocuments[p]
          /\ tables = <<>>
       \/ /\ pc = "tables"
          /\ parser = None
          /\ textLines = <<>>
          /\ tables \in TableLists
    /\ parseResult = None
    /\ result = None
    /\ scan = None
    /\ invoice = None
    /\ procs = <<>>
    /\ supplierName = ""
    /\ usePythonParser = FALSE
    /\ calls = <<>>
    /\ pythonResult = None
    /\ extractionResult = None
    /\ pdfData = <<>>
    /\ priceText = ""
    /\ prices = None

\* YamamotoParser.parse
YamamotoParses ==
    /\ pc = "lines"
    /\ parser = Some("YamamotoParser")
    /\ textLines' = setupColumnDetection(textLines)
    /\ parseResult' = Some(YamamotoParser_parseRows(textLines'))
    /\ pc' = "parsed"
    /\ UNCHANGED <<supplierName, usePythonParser, calls, pythonResult,
                   extractionResult, parser, result, pdfData, priceText, prices,
                   laterVars>>

\* PythonTableParser.parse on the tables of the extractor
TableParses ==
    /\ pc = "tables"
    /\ parseResult' = Some(PythonTableParser_parseTables(tables))
    /\ pc' = "parsed"
    /\ UNCHANGED <<supplierName, usePythonParser, calls, pythonResult,
                   extractionResult, parser, result, pdfData, textLines, priceText,
                   prices, laterVars>>

\* the first loop of AddictParser.parse and BoleroParser.parse: the header
\* line is looked for, and AddictParser returns when there is none
FindsHeader ==
    /\ pc = "lines"
    /\ parser[1] \in {"AddictParser", "BoleroParser"}
    /\ LET h == IF parser[1] = "AddictParser"
                THEN firstLine(textLines, isAddictHeader)
                ELSE firstLine(textLines, isBoleroHeader)
           column(text) == IF parser[1] = "AddictParser"
                           THEN AddictColumn(text) ELSE BoleroColumn(text)
       IN  IF h = 0 /\ parser[1] = "AddictParser"
           THEN /\ parseResult' = Some(Fail("Addict header not found (Libelle/PU/Prix HT)"))
                /\ pc' = "parsed"
                /\ scan' = scan
           ELSE /\ scan' = Some([state |-> ScanStart, index |-> 1,
                                 headerY |-> IF h = 0 THEN None
                                             ELSE Some(textLines[h].yPosition),
                                 thresholds |-> IF h = 0 THEN NoThresholds
                                                ELSE columnThresholds(textLines[h].items,
                                                                      column)])
                /\ pc' = "scanning"
                /\ parseResult' = parseResult
    /\ UNCHANGED <<supplierName, usePythonParser, calls, pythonResult,
                   extractionResult, parser, result, pdfData, textLines, priceText,
                   prices, tables, invoice, procs>>

\* one turn of the loop over the lines
ScansLine ==
    /\ pc = "scanning"
    /\ scan[1].index <= Len(textLines)
    /\ ~scan[1].state.stopped
    /\ LET s == scan[1]
           line == textLines[s.index]
       IN  scan' = Some([s EXCEPT
                  !.index = @ + 1,
                  !.state = IF parser[1] = "AddictParser"
                            THEN AddictParser_scanLine(@, line, s.headerY[1], s.thresholds)
                            ELSE BoleroParser_scanLine(@, line, s.headerY, s.thresholds)])
    /\ UNCHANGED <<pc, supplierName, usePythonParser, calls, pythonResult,
                   extractionResult, parser, parseResult, result, pdfData, textLines,
                   priceText, prices, tables, invoice, procs>>

\* the loop has ended, by the last line or by break, and parse returns
Returns ==
    /\ pc = "scanning"
    /\ scan[1].index > Len(textLines) \/ scan[1].state.stopped
    /\ parseResult' = Some(IF parser[1] = "AddictParser"
                           THEN scanResult(scan[1].state, "No line items parsed for Addict")
                           ELSE BoleroParser_finish(scan[1].state, textLines))
    /\ pc' = "parsed"
    /\ UNCHANGED <<supplierName, usePythonParser, calls, pythonResult,
                   extractionResult, parser, result, pdfData, textLines, priceText,
                   prices, laterVars>>

\* the same strategy parses the same lines a second time, or the table
\* interpreter the same tables
ParsesAgain ==
    /\ pc = "parsed"
    /\ textLines' = IF parser = Some("YamamotoParser")
                    THEN setupColumnDetection(textLines) ELSE textLines
    /\ result' = Some(IF parser = None THEN PythonTableParser_parseTables(tables)
                      ELSE parseRows(parser[1], textLines'))
    /\ pc' = "parsed twice"
    /\ UNCHANGED <<supplierName, usePythonParser, calls, pythonResult,
                   extractionResult, parser, parseResult, pdfData, priceText, prices,
                   laterVars>>

NextRows == YamamotoParses \/ TableParses \/ FindsHeader \/ ScansLine \/ Returns \/ ParsesAgain

SpecRows == InitRows /\ [][NextRows]_vars

Parsed == pc \in {"parsed", "parsed twice"} /\ parseResult # None

\* the line items of the first parse
Items == IF parseResult[1].data = None THEN <<>> ELSE parseResult[1].data[1].lineItems

---------------------------------------------------------------------------
(* Claims about the rows the strategies and the table interpreter emit *)

\* the item has a quantity and a unit price that are numbers
hasQuantityAndPrice(item) ==
    item.quantity.kind = "number" /\ item.unitPrice.kind = "number"

\* C12: in every line item of a successful result that has a quantity and a
\* unit price, total equals round(quantity x unitPrice, 2), whatever total
\* the document prints, in every position-based strategy and in the table
\* interpreter.
C12_TotalIsQuantityTimesPrice ==
    (Parsed /\ parseResult[1].success) =>
        \A i \in 1..Len(Items) :
            hasQuantityAndPrice(Items[i]) =>
                Items[i].total = roundTo(times(Items[i].unitPrice, Items[i].quantity), 2)

\* the shipping fee of the first parse
ShippingFee == parseResult[1].data[1].invoiceMetadata.shippingFee

\* C13: when a successful result reports a shipping fee above 0, no line
\* item of that result has a description with a shipping keyword: a row the
\* fee is read from is not emitted as a line item as well.
C13_ShippingRowIsNoItem ==
    (Parsed /\ parseResult[1].success /\ positive(ShippingFee)) =>
        \A i \in 1..Len(Items) : ~hasShippingKeyword(descriptionOf(Items[i]))

\* the markers of a footer line
FooterMarkers == {"subtotal", "total", "vat", "tva", "net", "règlement"}

\* the index of the first line below the header line, which is line 1, that
\* contains a footer marker; 0 when there is none
footerLine(lines) ==
    LET marked == {i \in 2..Len(lines) :
                      \E w \in FooterMarkers : includes(toLowerCase(lines[i].text), w)}
    IN  IF marked = {} THEN 0 ELSE Min(marked)

\* the document starts with the header line of a strategy
startsWithHeader(lines) ==
    /\ Len(lines) > 0
    /\ lines[1] \in {atY(h, 100) : h \in {YamamotoHeader, AddictHeader, BoleroHeader}}

\* the SKUs of the items of a result, in order
skusOf(r) ==
    IF r.data = None THEN <<>>
    ELSE [i \in 1..Len(r.data[1].lineItems) |-> r.data[1].lineItems[i].supplierSku]

\* C14: in every position-based strategy no line item is built from a line
\* at or after the first line below the table header that contains a footer
\* marker: the items of a document are the items of its lines above that
\* line.
C14_NoItemAfterFooter ==
    (/\ Parsed /\ parser # None /\ parseResult[1].success
     /\ startsWithHeader(textLines) /\ footerLine(textLines) > 0) =>
        skusOf(parseResult[1])
            = skusOf(parseRows(parser[1], SubSeq(textLines, 1, footerLine(textLines) - 1)))

---------------------------------------------------------------------------
(* Several calls of parseInvoiceFromPdf in flight.  A call runs from one   *)
(* await to the next without interruption; between two awaits of one call  *)
(* any other call may run a stretch of its own.  procs holds               *)
(*   calls  - per call: its position, its arguments (with what the file    *)
(*            it names makes the backends answer) and what it returned;    *)
(*   frames - the activation records: the const locals of the function     *)
(*            body, forcePythonParser, pythonParser, result,               *)
(*            extractionResult, parser and parseResult;                    *)
(*   heap   - the objects created with new, in order of allocation.        *)

\* calls in flight
NumCalls == 2

\* what the file at pdfFilePath makes the three backends answer
File(ext, event, doc) == [ext |-> ext, event |-> event, doc |-> doc]

TableFile ==
    File([thrown |-> None, nTables |-> 1, nItems |-> 1],
         [name |-> "pdfParser_dataError", parserError |-> "", pdfData |-> <<>>,
          thrown |-> None],
         [thrown |-> None, headerFound |-> TRUE, nItems |-> 1])

TextFile ==
    File([thrown |-> None, nTables |-> 0, nItems |-> 0],
         [name |-> "pdfParser_dataReady", parserError |-> "",
          pdfData |-> <<Run(1, 0, 4, "Invoice%2012%2F03%2F2024")>>, thrown |-> None],
         [thrown |-> None, headerFound |-> TRUE, nItems |-> 1])

HeaderlessFile ==
    File([thrown |-> None, nTables |-> 1, nItems |-> 0],
         [name |-> "pdfParser_dataReady", parserError |-> "",
          pdfData |-> <<Run(1, 4, 4, "Total"), Run(1, 0, 4, "Net%20")>>, thrown |-> None],
         [thrown |-> None, headerFound |-> FALSE, nItems |-> 0])

UnreadableFile ==
    File([thrown |-> Some([isError |-> TRUE,
                           message |-> "Cannot read properties of undefined"]),
          nTables |-> 0, nItems |-> 0],
         [name |-> "loadPDF_throws", parserError |-> "", pdfData |-> <<>>,
          thrown |-> Some([isError |-> FALSE, message |-> ""])],
         [thrown |-> Some([isError |-> FALSE, message |-> ""]),
          headerFound |-> FALSE, nItems |-> 0])

Call(name, usePython, file) ==
    [supplierName |-> name, usePythonParser |-> usePython, pdfFilePath |-> file]

\* the calls put in flight: forced and optional table extraction, with and
\* without fallback, and each way the fallback chain ends
CallArgs ==
    {Call("Yamamoto", FALSE, TableFile),
     Call("Yamamoto", FALSE, UnreadableFile),
     Call("Bolero", TRUE, TableFile),
     Call("Bolero", TRUE, TextFile),
     Call("Bolero", FALSE, TableFile),
     Call("Addict", TRUE, HeaderlessFile),
     Call("Addict", FALSE, TextFile),
     Call("Addict", TRUE, UnreadableFile)}

\* the locals of a call that has not started
NoFrame ==
    [forcePythonParser |-> FALSE, pythonParser |-> None, result |-> None,
     extractionResult |-> None, parser |-> None, pending |-> None,
     parseResult |-> None]

\* all calls of one activation record, as if the locals were module-level
frameOf_shared(i) == 1

\* the activation record of call i: every call of the function has its own
frameOf(i) == i

\* the fallback chain from line 193 on, as one function of the arguments
textBackendResult(args) ==
    IF args.pdfFilePath.event.name = "loadPDF_throws"
    THEN Fail(ErrorMessage(args.pdfFilePath.event.thrown[1], "Unknown parsing error"))
    ELSE IF ~extractStructuredText(args.pdfFilePath.event).success
            \/ extractStructuredText(args.pdfFilePath.event).textLines = None
    THEN Fail(extractionError(extractStructuredText(args.pdfFilePath.event)))
    ELSE InvoiceParser_parse(selectParser(args.supplierName),
                             extractStructuredText(args.pdfFilePath.event).textLines[1],
                             args.pdfFilePath.doc)

\* what parseInvoiceFromPdf(pdfFilePath, supplierName, usePythonParser)
\* resolves to when no other call is in flight
callResult(args) ==
    IF /\ args.usePythonParser \/ forcePythonParser(args.supplierName)
       /\ \/ forcePythonParser(args.supplierName)
          \/ pythonSucceededWithItems(PythonTableParser_parse(args.pdfFilePath.ext))
    THEN PythonTableParser_parse(args.pdfFilePath.ext)
    ELSE textBackendResult(args)

allocated(class, call) == [class |-> class, call |-> call]

InitCalls ==
    /\ pc = "calls"
    /\ supplierName = ""
    /\ usePythonParser = FALSE
    /\ calls = <<>>
    /\ pythonResult = None
    /\ extractionResult = None
    /\ parser = None
    /\ parseResult = None
    /\ result = None
    /\ pdfData = <<>>
    /\ textLines = <<>>
    /\ priceText = ""
    /\ prices = None
    /\ scan = None
    /\ tables = <<>>
    /\ invoice = None
    /\ \E args \in [1..NumCalls -> CallArgs] :
         procs = [calls  |-> [i \in 1..NumCalls |->
                                 [pc |-> "start", args |-> args[i], returned |-> None]],
                  frames |-> [i \in 1..NumCalls |-> NoFrame],
                  heap   |-> <<>>]

callVars == <<pc, supplierName, usePythonParser, calls, pythonResult,
              extractionResult, parser, parseResult, result, pdfData, textLines,
              priceText, prices, scan, tables, invoice>>

\* lines 149-161 and 193 of call i: up to its first await
CallBegins(i) ==
    /\ procs.calls[i].pc = "start"
    /\ IF \/ procs.calls[i].args.usePythonParser
          \/ forcePythonParser(procs.calls[i].args.supplierName)
       THEN procs' = [procs EXCEPT
                !.calls[i].pc = "awaitPython",
                !.frames[frameOf(i)].forcePythonParser =
                    forcePythonParser(procs.calls[i].args.supplierName),
                !.frames[frameOf(i)].pythonParser = Some(Len(procs.heap) + 1),
                !.heap = Append(@, allocated("PythonTableParser", i))]
       ELSE procs' = [procs EXCEPT
                !.calls[i].pc = "awaitExtraction",
                !.frames[frameOf(i)].forcePythonParser =
                    forcePythonParser(procs.calls[i].args.supplierName)]
    /\ UNCHANGED callVars

\* lines 161-193 of call i: its pythonParser.parse resolved
CallPythonResolves(i) ==
    /\ procs.calls[i].pc = "awaitPython"
    /\ IF \/ procs.frames[frameOf(i)].forcePythonParser
          \/ pythonSucceededWithItems(
                 PythonTableParser_parse(procs.calls[i].args.pdfFilePath.ext))
       THEN procs' = [procs EXCEPT
                !.frames[frameOf(i)].result =
                    Some(PythonTableParser_parse(procs.calls[i].args.pdfFilePath.ext)),
                !.calls[i].returned =
                    Some(PythonTableParser_parse(procs.calls[i].args.pdfFilePath.ext)),
                !.calls[i].pc = "done"]
       ELSE procs' = [procs EXCEPT
                !.frames[frameOf(i)].result =
                    Some(PythonTableParser_parse(procs.calls[i].args.pdfFilePath.ext)),
                !.calls[i].pc = "awaitExtraction"]
    /\ UNCHANGED callVars

\* the stretch of lines 193-206 once extractionResult is bound: the early
\* return, or selectParser and the synchronous body of parser.parse
afterExtraction(i, r) ==
    IF ~r.success \/ r.textLines = None
    THEN [procs EXCEPT
             !.frames[frameOf(i)].extractionResult = Some(r),
             !.calls[i].returned = Some(Fail(extractionError(r))),
             !.calls[i].pc = "done"]
    ELSE [procs EXCEPT
             !.frames[frameOf(i)].extractionResult = Some(r),
             !.frames[frameOf(i)].parser = Some(Len(procs.heap) + 1),
             !.frames[frameOf(i)].pending =
                 Some(InvoiceParser_parse(selectParser(procs.calls[i].args.supplierName),
                                          r.textLines[1],
                                          procs.calls[i].args.pdfFilePath.doc)),
             !.heap = Append(@, allocated(selectParser(procs.calls[i].args.supplierName), i)),
             !.calls[i].pc = "awaitParse"]

\* lines 193-206 and the catch at 209 of call i: its extractStructuredText settled
CallExtractionSettles(i) ==
    /\ procs.calls[i].pc = "awaitExtraction"
    /\ IF procs.calls[i].args.pdfFilePath.event.name = "loadPDF_throws"
       THEN procs' = [procs EXCEPT
                !.calls[i].returned =
                    Some(Fail(ErrorMessage(procs.calls[i].args.pdfFilePath.event.thrown[1],
                                           "Unknown parsing error"))),
                !.calls[i].pc = "done"]
       ELSE procs' = afterExtraction(
                         i, extractStructuredText(procs.calls[i].args.pdfFilePath.event))
    /\ UNCHANGED callVars

\* lines 206-208 of call i: its parser.parse resolved
CallParseResolves(i) ==
    /\ procs.calls[i].pc = "awaitParse"
    /\ procs' = [procs EXCEPT
           !.frames[frameOf(i)].parseResult = procs.frames[frameOf(i)].pending,
           !.calls[i].returned = procs.frames[frameOf(i)].pending,
           !.calls[i].pc = "done"]
    /\ UNCHANGED callVars

NextCalls ==
    \E i \in 1..NumCalls :
        \/ CallBegins(i)
        \/ CallPythonResolves(i)
        \/ CallExtractionSettles(i)
        \/ CallParseResolves(i)

SpecCalls == InitCalls /\ [][NextCalls]_vars

---------------------------------------------------------------------------
(* Claims about calls in flight together *)

\* C16: whatever the order in which the stretches of the calls in flight
\* run, a call that has returned has returned what the same call returns
\* when it runs alone.
C16_InterleavedCallsReturnAsAlone ==
    pc = "calls" =>
        \A i \in 1..NumCalls :
            procs.calls[i].returned # None =>
                procs.calls[i].returned[1] = callResult(procs.calls[i].args)

\* two calls with different answers have both returned, and each began and
\* selected its strategy while the other was suspended
C16_Witness ==
    /\ pc = "calls"
    /\ \A i \in 1..NumCalls : procs.calls[i].pc = "done"
    /\ Len(procs.heap) >= 4
    /\ SubSeq(procs.heap, 1, 4) =
           <<allocated("PythonTableParser", 1), allocated("PythonTableParser", 2),
             allocated("AddictParser", 2), allocated("BoleroParser", 1)>>
    /\ procs.calls[1].returned # procs.calls[2].returned

\* the prefixes that mark a supplierSku as generated: the one the table
\* interpreter writes, and the one its documentation shows
GeneratedSkuMarkers == {"RABEKO_", "GEN_"}

\* the column of a table that holds the product code (0 when it has none)
\* and the one that holds the description
codeColumn(t) == IF t.headers = RabekoHeaders THEN 0 ELSE 1

nameColumn(t) == codeColumn(t) + 1

\* row r of table t has a description, a quantity and prices, no product
\* code, and is not a shipping row
withoutCode(t, r) ==
    /\ t.headers \in TableHeaders \cup {RabekoHeaders}
    /\ codeColumn(t) > 0 => t.data[r][codeColumn(t)] = ""
    /\ \A c \in nameColumn(t)..Len(t.data[r]) : t.data[r][c] # ""
    /\ ~hasShippingKeyword(t.data[r][nameColumn(t)])
    /\ ~includes(toLowerCase(t.data[r][nameColumn(t)]), "transport")

\* C17: a table row with a description, a quantity and prices but without a
\* product code is emitted as a line item whose supplierSku is not empty and
\* begins with a generated-SKU marker.
C17_RowWithoutCodeIsEmitted ==
    (Parsed /\ parser = None /\ parseResult[1].success) =>
        \A t \in 1..Len(tables) : \A r \in 2..Len(tables[t].data) :
            withoutCode(tables[t], r) =>
                \E i \in 1..Len(Items) :
                    /\ descriptionOf(Items[i]) = tables[t].data[r][nameColumn(tables[t])]
                    /\ \E marker \in GeneratedSkuMarkers :
                           startsWith(Items[i].supplierSku, marker)

\* C18: every line item of a successful result has a supplierSku that is
\* not empty and a quantity, a unitPrice and a total that are numbers.
C18_ItemsAreComplete ==
    (Parsed /\ parseResult[1].success) =>
        \A i \in 1..Len(Items) :
            /\ Items[i].supplierSku # ""
            /\ Items[i].quantity.kind = "number"
            /\ Items[i].unitPrice.kind = "number"
            /\ Items[i].total.kind = "number"

---------------------------------------------------------------------------
(* processInvoicePdf, one action per await.  invoice holds                 *)
(*   row     - the invoice in the database (None when there is none);      *)
(*   local   - the variable invoice of the function body;                  *)
(*   log     - the log entries written, as <<step, status>>;               *)
(*   parseResult, mappedItems - the consts of the same names;              *)
(*   updated - whether updateInvoice(invoiceId, updateData) has resolved;  *)
(*   thrown  - whether the run has thrown (and so ends rejected).          *)
(* Every awaited call on the database either resolves or rejects.          *)

\* the suppliers of the invoices: one forced to table extraction, two not
InvoiceSuppliers == {"Yamamoto", "Bolero", "Addict"}

\* the invoices in the database before the run
InvoiceRows ==
    {[supplierName |-> n, pdfFileName |-> f, status |-> "PROCESSING",
      invoiceDate |-> "2024-01-01", shippingFee |-> None, items |-> None] :
        n \in InvoiceSuppliers,
        f \in {Some(TableFile), Some(TextFile), Some(HeaderlessFile),
               Some(UnreadableFile), None}}

InitInvoice ==
    /\ pc = "invoice"
    /\ supplierName = ""
    /\ usePythonParser = FALSE
    /\ calls = <<>>
    /\ pythonResult = None
    /\ extractionResult = None
    /\ parser = None
    /\ parseResult = None
    /\ result = None
    /\ pdfData = <<>>
    /\ textLines = <<>>
    /\ priceText = ""
    /\ prices = None
    /\ scan = None
    /\ tables = <<>>
    /\ procs = <<>>
    /\ \E row \in {None} \cup {Some(r) : r \in InvoiceRows} :
         invoice = [pc |-> "getInvoiceById", row |-> row, local |-> None,
                    log |-> <<>>, parseResult |-> None, mappedItems |-> None,
                    updated |-> FALSE, thrown |-> FALSE, rethrown |-> FALSE,
                    readFailed |-> FALSE]

invoiceVars == <<pc, supplierName, usePythonParser, calls, pythonResult,
                 extractionResult, parser, parseResult, result, pdfData, textLines,
                 priceText, prices, scan, tables, procs>>

\* control passes to the catch block
throws(inv) == [inv EXCEPT !.pc = "catch", !.thrown = TRUE]

\* a log whose newest entry comes first
logged_first(inv, step, status) == [inv EXCEPT !.log = <<<<step, status>>>> \o @]

\* a query of the database rejected: control passes to the catch block
throwsOnRead(inv) == [throws(inv) EXCEPT !.readFailed = TRUE]

\* createLogEntry(invoiceId, step, status, ...) resolved
logged(inv, step, status) == [inv EXCEPT !.log = Append(@, <<step, status>>)]

\* lines 1307-1315: getInvoiceById settles, then the two guards
GetsInvoice ==
    /\ invoice.pc = "getInvoiceById"
    /\ \E resolves \in BOOLEAN :
         invoice' =
            IF ~resolves THEN throwsOnRead(invoice)
            ELSE IF invoice.row = None THEN throws(invoice)
            ELSE IF invoice.row[1].pdfFileName = None
            THEN throws([invoice EXCEPT !.local = invoice.row])
            ELSE [invoice EXCEPT !.local = invoice.row, !.pc = "logStart"]
    /\ UNCHANGED invoiceVars

\* lines 1318-1326: the first log entry settles; getStoredPdfPath and the
\* call of parseInvoiceFromPdf follow
LogsStart ==
    /\ invoice.pc = "logStart"
    /\ \E resolves \in BOOLEAN :
         invoice' =
            IF ~resolves THEN throws(invoice)
            ELSE [logged(invoice, "PROCESSING", "INFO") EXCEPT !.pc = "parse"]
    /\ UNCHANGED invoiceVars

\* lines 1326-1328: parseInvoiceFromPdf(pdfFilePath, invoice.supplier.name)
\* resolves (it catches whatever is thrown inside it)
ParsesInvoice ==
    /\ invoice.pc = "parse"
    /\ invoice' =
          [invoice EXCEPT
              !.parseResult = Some(callResult(Call(invoice.local[1].supplierName, FALSE,
                                                   invoice.local[1].pdfFileName[1]))),
              !.pc = IF \/ ~callResult(Call(invoice.local[1].supplierName, FALSE,
                                           invoice.local[1].pdfFileName[1])).success
                        \/ callResult(Call(invoice.local[1].supplierName, FALSE,
                                           invoice.local[1].pdfFileName[1])).data = None
                     THEN "updateError" ELSE "logParsed"]
    /\ UNCHANGED invoiceVars

\* updateInvoice(invoiceId, { status }) resolved
withStatus(inv, status) == [inv EXCEPT !.row[1].status = status]

\* line 1330: updateInvoice(invoiceId, { status: "ERROR" }) settles
WritesParseError ==
    /\ invoice.pc = "updateError"
    /\ \E resolves \in BOOLEAN :
         invoice' =
            IF ~resolves THEN throws(invoice)
            ELSE [withStatus(invoice, "ERROR") EXCEPT !.pc = "logParseError"]
    /\ UNCHANGED invoiceVars

\* lines 1331-1337: the log entry of the failed parse settles; return
LogsParseError ==
    /\ invoice.pc = "logParseError"
    /\ \E resolves \in BOOLEAN :
         invoice' =
            IF ~resolves THEN throws(invoice)
            ELSE [logged(invoice, "PARSING", "ERROR") EXCEPT !.pc = "done"]
    /\ UNCHANGED invoiceVars

\* lines 1340-1346: the log entry of the successful parse settles
LogsParsed ==
    /\ invoice.pc = "logParsed"
    /\ \E resolves \in BOOLEAN :
         invoice' =
            IF ~resolves THEN throws(invoice)
            ELSE [logged(invoice, "PARSING", "SUCCESS") EXCEPT
                     !.pc = IF invoice.parseResult[1].warnings = None
                            THEN "map" ELSE "logWarnings"]
    /\ UNCHANGED invoiceVars

RECURSIVE loggedAll(_, _)
loggedAll(inv, warnings) ==
    IF Len(warnings) = 0 THEN inv
    ELSE loggedAll(logged(inv, "PARSING", "WARNING"), Tail(warnings))

\* lines 1348-1353: the log entries of the warnings; the first to reject
\* ends the loop
LogsWarnings ==
    /\ invoice.pc = "logWarnings"
    /\ \E resolved \in 0..Len(invoice.parseResult[1].warnings[1]) :
         invoice' =
            IF resolved < Len(invoice.parseResult[1].warnings[1])
            THEN throws(loggedAll(invoice,
                                  SubSeq(invoice.parseResult[1].warnings[1], 1, resolved)))
            ELSE [loggedAll(invoice, invoice.parseResult[1].warnings[1]) EXCEPT !.pc = "map"]
    /\ UNCHANGED invoiceVars

\* what the SupplierSKU table holds for a supplier SKU
ProductIds == {None, Some("product-1")}

\* mappedItems.map(item => ({ sku, description, quantity, unitPrice, total,
\* productId })); the line items of the envelopes carry no description
itemsOf(lineItems, productId) ==
    [i \in 1..Len(lineItems) |->
        [sku |-> lineItems[i].supplierSku, quantity |-> lineItems[i].quantity,
         unitPrice |-> lineItems[i].unitPrice, total |-> lineItems[i].total,
         productId |-> productId]]

\* line 1356: mapLineItemsToProducts settles (one findFirst per line item)
MapsItems ==
    /\ invoice.pc = "map"
    /\ \E resolves \in BOOLEAN, productId \in ProductIds :
         invoice' =
            IF ~resolves THEN throwsOnRead(invoice)
            ELSE [invoice EXCEPT
                     !.mappedItems =
                         Some(itemsOf(invoice.parseResult[1].data[1].lineItems, productId)),
                     !.pc = "update"]
    /\ UNCHANGED invoiceVars

\* lines 1358-1376: updateInvoice(invoiceId, updateData) settles
UpdatesInvoice ==
    /\ invoice.pc = "update"
    /\ \E resolves \in BOOLEAN :
         invoice' =
            IF ~resolves THEN throws(invoice)
            ELSE [invoice EXCEPT
                     !.row[1].invoiceDate =
                         IF invoice.parseResult[1].data[1].invoiceMetadata.invoiceDate # None
                         THEN invoice.parseResult[1].data[1].invoiceMetadata.invoiceDate[1]
                         ELSE invoice.local[1].invoiceDate,
                     !.row[1].shippingFee =
                         Some(invoice.parseResult[1].data[1].invoiceMetadata.shippingFee),
                     !.row[1].items = invoice.mappedItems,
                     !.row[1].status = "PENDING_REVIEW",
                     !.updated = TRUE,
                     !.pc = "logSuccess"]
    /\ UNCHANGED invoiceVars

\* lines 1379-1385: the last log entry settles
LogsSuccess ==
    /\ invoice.pc = "logSuccess"
    /\ \E resolves \in BOOLEAN :
         invoice' =
            IF ~resolves THEN throws(invoice)
            ELSE [logged(invoice, "PROCESSING", "SUCCESS") EXCEPT !.pc = "done"]
    /\ UNCHANGED invoiceVars

\* a rejection inside the catch block leaves the function
rethrows(inv) == [inv EXCEPT !.pc = "done", !.rethrown = TRUE]

\* lines 1389-1396: the catch block, up to its updateInvoice; a rejection
\* here leaves the function
Catches ==
    /\ invoice.pc = "catch"
    /\ \E resolves \in BOOLEAN :
         invoice' =
            IF invoice.local = None THEN [invoice EXCEPT !.pc = "logError"]
            ELSE IF ~resolves THEN rethrows(invoice)
            ELSE [withStatus(invoice, "ERROR") EXCEPT !.pc = "logError"]
    /\ UNCHANGED invoiceVars

\* lines 1398-1406: the log entry of the catch block settles; throw error
LogsError ==
    /\ invoice.pc = "logError"
    /\ \E resolves \in BOOLEAN :
         invoice' =
            IF ~resolves THEN rethrows(invoice)
            ELSE [logged(invoice, "PROCESSING", "ERROR") EXCEPT !.pc = "done"]
    /\ UNCHANGED invoiceVars

NextInvoice ==
    \/ GetsInvoice
    \/ LogsStart
    \/ ParsesInvoice
    \/ WritesParseError
    \/ LogsParseError
    \/ LogsParsed
    \/ LogsWarnings
    \/ MapsItems
    \/ UpdatesInvoice
    \/ LogsSuccess
    \/ Catches
    \/ LogsError

SpecInvoice == InitInvoice /\ [][NextInvoice]_vars

---------------------------------------------------------------------------
(* Claims about the status processInvoicePdf leaves *)

\* the run is over, and the invoice existed and had a PDF
RunEnded ==
    /\ pc = "invoice"
    /\ invoice.pc = "done"
    /\ invoice.row # None
    /\ invoice.row[1].pdfFileName # None

parsedWithData(inv) ==
    /\ inv.parseResult # None
    /\ inv.parseResult[1].success
    /\ inv.parseResult[1].data # None

\* C19: a run on an existing invoice that has a PDF ends with status
\* PENDING_REVIEW exactly when the parse returned success with data and the
\* mapping and the update succeeded, and with status ERROR otherwise; the
\* status is never SUCCESS, and items and shipping fee are in the database
\* only when the update that writes PENDING_REVIEW has resolved.
C19_StatusFollowsParseMapUpdate ==
    RunEnded =>
        /\ invoice.row[1].status = "PENDING_REVIEW" <=>
               (parsedWithData(invoice) /\ invoice.mappedItems # None /\ invoice.updated)
        /\ invoice.row[1].status # "PENDING_REVIEW" => invoice.row[1].status = "ERROR"
        /\ invoice.row[1].status # "SUCCESS"
        /\ (invoice.row[1].items # None \/ invoice.row[1].shippingFee # None) =>
               invoice.updated

---------------------------------------------------------------------------
(* The loops of AddictParser.parse and BoleroParser.parse on longer        *)
(* documents: an item, a second item and a line of description only need   *)
(* three lines below the header.                                           *)

\* lines below the header
MaxScanLines == 3

ScanDocuments ==
    [AddictParser |-> WithHeader(AddictHeader, Documents(AddictRows, MaxScanLines)),
     BoleroParser |-> WithHeader(BoleroHeader, Documents(BoleroRows, MaxScanLines))]

InitScan ==
    /\ pc = "lines"
    /\ \E p \in DOMAIN ScanDocuments :
           /\ parser = Some(p)
           /\ textLines \in ScanDocuments[p]
    /\ tables = <<>>
    /\ parseResult = None
    /\ result = None
    /\ scan = None
    /\ invoice = None
    /\ procs = <<>>
    /\ supplierName = ""
    /\ usePythonParser = FALSE
    /\ calls = <<>>
    /\ pythonResult = None
    /\ extractionResult = None
    /\ pdfData = <<>>
    /\ priceText = ""
    /\ prices = None

NextScan == FindsHeader \/ ScansLine \/ Returns

SpecScan == InitScan /\ [][NextScan]_vars

---------------------------------------------------------------------------
(* Claims about the lines of description only *)

\* the line the loop is at, the row it parses to (None when it is no row)
\* and the text of its description column
lineAt(s) == textLines[s.index]

rowAt(s) ==
    IF parser[1] = "AddictParser"
    THEN AddictParser_parseRow(lineAt(s).items, s.thresholds)
    ELSE orElse(BoleroParser_parseRow(lineAt(s).items, s.thresholds),
                parseRowByHeuristics(lineAt(s).items))

textAt(s) ==
    IF parser[1] = "AddictParser"
    THEN AddictParser_getContinuationDescription(lineAt(s).items, s.thresholds)
    ELSE BoleroParser_getContinuationDescription(lineAt(s).items, s.thresholds)

\* the loop takes the line: it lies below the header and, for Addict, is
\* not the footer line that ends the loop
takesLine(s) ==
    /\ s.headerY # None => lineAt(s).yPosition > s.headerY[1] + 1
    /\ parser[1] = "AddictParser" =>
           ~\E mark \in {"TOTAL HT", "TOTAL TTC", "TVA", "NET"} :
                 includes(toUpperCase(lineAt(s).text), mark)

\* the items emitted before the last one are as they were
earlierItemsKept(was, now) ==
    /\ Len(now.items) >= Len(was.items)
    /\ \A i \in 1..(Len(was.items) - 1) : now.items[i] = was.items[i]

\* a line of description only went to the last item, or to the pending text
\* when there is no item yet
continuationAttached(was, now, text) ==
    IF Len(was.items) > 0
    THEN /\ Len(now.items) = Len(was.items)
         /\ descriptionOf(now.items[Len(now.items)]) =
                squeeze(descriptionOf(was.items[Len(was.items)]) \o " " \o text)
         /\ now.pendingDesc = was.pendingDesc
    ELSE /\ now.items = <<>>
         /\ now.pendingDesc = IF was.pendingDesc = "" THEN text
                                ELSE was.pendingDesc \o " " \o text

\* an emitted item took the pending text in front of its own description
\* (before the quantity token is removed from the whole), and left the
\* items before it alone
pendingPrepended(was, now, row) ==
    Len(now.items) = Len(was.items) + 1 =>
        /\ now.pendingDesc = ""
        /\ SubSeq(now.items, 1, Len(was.items)) = was.items
        /\ was.pendingDesc # "" =>
               descriptionOf(now.items[Len(now.items)]) =
                   withoutQuantity(squeeze(was.pendingDesc \o " " \o descriptionOf(row)),
                                   row.quantity)

\* C20: in every turn of the loops of AddictParser and BoleroParser the
\* description-column text of a line that is no item row is appended to the
\* description of the item emitted last or, when none has been emitted,
\* added to the pending text, which the next emitted item takes in front
\* of its description; no other item changes.
C20_ContinuationGoesToNearestItem ==
    [][(pc = "scanning" /\ scan' # scan /\ scan # None /\ scan' # None
        /\ scan[1].index <= Len(textLines)) =>
          /\ earlierItemsKept(scan[1].state, scan'[1].state)
          /\ (takesLine(scan[1]) /\ rowAt(scan[1]) = None /\ textAt(scan[1]) # "") =>
                 continuationAttached(scan[1].state, scan'[1].state, textAt(scan[1]))
          /\ (takesLine(scan[1]) /\ rowAt(scan[1]) # None) =>
                 pendingPrepended(scan[1].state, scan'[1].state, rowAt(scan[1])[1])]_vars

\* two items were emitted and a line of description only followed: its text
\* is at the end of the second item's description and not in the first's
C20_Witness ==
    /\ pc = "parsed"
    /\ parser # None
    /\ scan # None
    /\ Len(scan[1].state.items) = 2
    /\ Len(textLines) = 4
    /\ textLines[4].text = "vanilla"
    /\ descriptionOf(scan[1].state.items[2]) = "Bar vanilla"
    /\ ~includes(descriptionOf(scan[1].state.items[1]), "vanilla")

---------------------------------------------------------------------------
(* MaiavieParser.parse, one step per extraction pass.  What each pass finds *)
(* in a document is given by doc: whether the header line gives the        *)
(* description, unitPrice and total thresholds, how many items each pass   *)
(* builds, and the pass (if any) in which an exception is raised.  scan    *)
(* holds doc, the outputs of the passes run so far and result.lineItems;   *)
(* calls holds the names of the passes run.                                *)

\* the passes in the order of the calls in parse
MaiaviePasses ==
    <<"parseDolibarrByHeaderContinuations", "parseDolibarrHyphenStreaming",
      "parseDolibarrHyphenForward">>

\* the n items a pass builds, marked with the pass
itemsBy(pass, n) == [i \in 1..n |-> [LineItems(n)[i] EXCEPT !.supplierSku = pass]]

MaiavieDocs ==
    [thresholdsFound : BOOLEAN,
     found : [1..3 -> 0..MaxItems],
     thrownIn : 0..3]

\* what pass k returns on doc; the header pass returns [] at once when a
\* threshold is missing
passOutput(doc, k) ==
    IF k = 1 /\ ~doc.thresholdsFound THEN <<>>
    ELSE itemsBy(MaiaviePasses[k], doc.found[k])

\* every pass is tried, whatever the earlier ones returned
keeps_never(parsed) == FALSE

\* parsed.length > 0, alt.length > 0: the output of a pass is kept and no
\* later pass is tried
keeps(parsed) == Len(parsed) > 0

InitMaiavie ==
    /\ pc = "maiavie pass"
    /\ supplierName = ""
    /\ usePythonParser = FALSE
    /\ calls = <<>>
    /\ pythonResult = None
    /\ extractionResult = None
    /\ parser = Some("MaiavieParser")
    /\ parseResult = None
    /\ result = None
    /\ pdfData = <<>>
    /\ textLines = <<>>
    /\ priceText = ""
    /\ prices = None
    /\ tables = <<>>
    /\ invoice = None
    /\ procs = <<>>
    /\ \E doc \in MaiavieDocs :
         scan = Some([doc |-> doc, outputs |-> <<>>, lineItems |-> <<>>])

maiavieVars == <<supplierName, usePythonParser, pythonResult, extractionResult,
                 parser, result, pdfData, textLines, priceText, prices, tables,
                 invoice, procs>>

\* lines 1945-1963: the next pass runs; its output is kept, or the pass
\* after it is tried.  The output of the third pass is assigned as it is.
RunsPass ==
    /\ pc = "maiavie pass"
    /\ Len(calls) < 3
    /\ scan[1].doc.thrownIn # Len(calls) + 1
    /\ calls' = Append(calls, MaiaviePasses[Len(calls) + 1])
    /\ scan' = Some([scan[1] EXCEPT
           !.outputs = Append(@, passOutput(scan[1].doc, Len(calls) + 1)),
           !.lineItems = IF Len(calls) = 2 \/ keeps(passOutput(scan[1].doc, Len(calls) + 1))
                         THEN passOutput(scan[1].doc, Len(calls) + 1) ELSE @])
    /\ pc' = IF Len(calls) = 2 \/ keeps(passOutput(scan[1].doc, Len(calls) + 1))
             THEN "maiavie return" ELSE "maiavie pass"
    /\ UNCHANGED <<parseResult, maiavieVars>>

\* lines 1972-1977: an exception inside a pass reaches the catch
PassThrows ==
    /\ pc = "maiavie pass"
    /\ Len(calls) < 3
    /\ scan[1].doc.thrownIn = Len(calls) + 1
    /\ calls' = Append(calls, MaiaviePasses[Len(calls) + 1])
    /\ \E t \in Thrown :
         parseResult' = Some(Fail(ErrorMessage(t, "Maiavie parsing failed")))
    /\ pc' = "maiavie done"
    /\ UNCHANGED <<scan, maiavieVars>>

\* lines 1964-1971: return { success: true, data: result, warnings }
MaiavieReturns ==
    /\ pc = "maiavie return"
    /\ parseResult' =
          Some(Ok([EmptyInvoiceData EXCEPT !.lineItems = scan[1].lineItems],
                  IF Len(scan[1].lineItems) = 0
                  THEN Some(<<"No line items parsed for Maiavie">>) ELSE None))
    /\ pc' = "maiavie done"
    /\ UNCHANGED <<calls, scan, maiavieVars>>

NextMaiavie == RunsPass \/ PassThrows \/ MaiavieReturns

SpecMaiavie == InitMaiavie /\ [][NextMaiavie]_vars

---------------------------------------------------------------------------
(* Claims about the passes of MaiavieParser *)

isPrefix(s, t) == Len(s) <= Len(t) /\ SubSeq(t, 1, Len(s)) = s

MaiavieReturned ==
    pc = "maiavie done" /\ parseResult # None /\ parseResult[1].success

\* the passes run are the first ones of order, each but the last returned
\* no item, a pass that returned no item was followed by the next of order,
\* and the line items of the result are the output of the last pass run
firstPassWithItems(order) ==
    /\ isPrefix(calls, order)
    /\ \A k \in 1..(Len(calls) - 1) : scan[1].outputs[k] = <<>>
    /\ scan[1].outputs[Len(calls)] = <<>> => Len(calls) = Len(order)
    /\ Items = scan[1].outputs[Len(calls)]

\* C21 as stated: the passes are the header-based pass, the hyphen-forward
\* scan and the global heuristic scan, in this order; a later pass runs only
\* when the earlier ones returned no items, and the result holds the output
\* of the first pass that returned items.
C21_HeaderForwardGlobal ==
    MaiavieReturned =>
        firstPassWithItems(<<"parseDolibarrByHeaderContinuations",
                             "parseDolibarrHyphenForward", "parseByGlobalHeuristics">>)

\* C21: the passes are parseDolibarrByHeaderContinuations,
\* parseDolibarrHyphenStreaming and parseDolibarrHyphenForward, in this
\* order; a later pass runs only when every earlier one returned no items,
\* and the line items of the result are the output of the first pass that
\* returned items (of the third when none did), never a merge.
C21_HeaderStreamingForward ==
    MaiavieReturned => firstPassWithItems(MaiaviePasses)

\* the first two passes returned nothing and the third returned items
C21_Witness ==
    /\ MaiavieReturned
    /\ calls = MaiaviePasses
    /\ scan[1].outputs[1] = <<>>
    /\ scan[1].outputs[2] = <<>>
    /\ Len(Items) = MaxItems
    /\ \A i \in 1..Len(Items) : Items[i].supplierSku = "parseDolibarrHyphenForward"

---------------------------------------------------------------------------
(* Claims about BoleroParser on a document without a header line *)

\* the two right-most price-like elements of a line that has two or more
lastTwoPrices(els) ==
    IF Len(els) >= 2 THEN <<els[Len(els) - 1], els[Len(els)]>> ELSE <<>>

RECURSIVE priceXsOf(_)
priceXsOf(lines) ==
    IF Len(lines) = 0 THEN <<>>
    ELSE lastTwoPrices(sortByX(SelectSeq(lines[1].items,
                                         LAMBDA it : isPriceLike(trim(it.text)))))
         \o priceXsOf(Tail(lines))

\* the right-most integer elements left of the unit price, one per line
RECURSIVE qtyXsOf(_, _)
qtyXsOf(lines, unitPrice) ==
    IF Len(lines) = 0 THEN <<>>
    ELSE LET ints == sortByX(SelectSeq(lines[1].items,
                                       LAMBDA it : isInteger(trim(it.text)) /\ it.x < unitPrice))
         IN  (IF Len(ints) > 0 THEN <<ints[Len(ints)]>> ELSE <<>>)
             \o qtyXsOf(Tail(lines), unitPrice)

medianX(xs) == sortByX(xs)[(Len(xs) \div 2) + 1].x

inferredQuantity(qtyXs) == IF Len(qtyXs) > 0 THEN Some(medianX(qtyXs)) ELSE None

inferredFrom(priceXs, quantity) ==
    [c \in {"sku", "description", "quantity", "unitPrice", "total"} |->
        CASE c = "unitPrice"   -> Some(sortByX(priceXs)[Len(priceXs) \div 2].x)
          [] c = "total"       -> Some(sortByX(priceXs)[(Len(priceXs) \div 2) + 1].x)
          [] c = "quantity"    -> quantity
          [] c = "description" -> IF quantity = None THEN None ELSE Some(quantity[1] - 100)
          [] OTHER             -> None]

\* _inferBoleroThresholdsFromData(textLines, thresholds) on empty thresholds;
\* x is in tenths of a unit
inferBoleroThresholdsFromData(lines) ==
    IF Len(priceXsOf(lines)) < 2 THEN NoThresholds
    ELSE inferredFrom(priceXsOf(lines),
                      inferredQuantity(qtyXsOf(lines,
                          sortByX(priceXsOf(lines))[Len(priceXsOf(lines)) \div 2].x)))

\* C22: when no line of the document is a Bolero header, the rows are parsed
\* with the thresholds inferred from the data: unitPrice and total from the
\* median x of the price-like elements of the lines with two or more, and
\* quantity from the integers left of the unit price.
C22_ThresholdsAreInferred ==
    (/\ pc = "scanning"
     /\ parser = Some("BoleroParser")
     /\ firstLine(textLines, isBoleroHeader) = 0) =>
        scan[1].thresholds = inferBoleroThresholdsFromData(textLines)


---------------------------------------------------------------------------
(* PythonTableParser on a table whose single data row holds one line per   *)
(* item in every cell: the cells are drawn from entries that are complete, *)
(* that carry a code of another family, a quantity that is no number, a    *)
(* name with 'Custom' or a tariff line below the name, and the extractor   *)
(* may have lost the last line of one cell                                 *)

MaxEntries == 3

YamamotoEntries ==
    {<<"IAF12", "Whey 2 kg", "PZ", "2,00", "10,00", "NI22", "25,00">>,
     <<"ABC1", "Bar", "PZ", "3,00", "4,00", "NI22", "12,00">>,
     <<"YAM7", "Creatine", "PZ", "x", "5,00", "NI22", "5,00">>,
     <<"IAF20", "Custom Bar", "PZ", "1,00", "2,50", "NI22", "2,50">>,
     <<"IAF30", "Iso\ntariff: 2106", "PZ", "4,00", "1,25", "NI22", "5,00">>}

\* the columns whose cell may have lost its last line: none, AMOUNT
LostColumns == {0, 7}

\* the row without the last line of the cell of column c
withoutLastLine(row, c) ==
    IF c = 0 THEN row
    ELSE [row EXCEPT ![c] = join(SubSeq(cellLines(@), 1, Len(cellLines(@)) - 1), "\n")]

InitYamamotoTable ==
    /\ pc = "tables"
    /\ parser = None
    /\ textLines = <<>>
    /\ \E entries \in {e \in Rows(YamamotoEntries, MaxEntries) : Len(e) >= 2},
          c \in LostColumns :
           tables = <<Table(YamamotoHeaders, <<withoutLastLine(joined(entries), c)>>)>>
    /\ parseResult = None
    /\ result = None
    /\ scan = None
    /\ invoice = None
    /\ procs = <<>>
    /\ supplierName = ""
    /\ usePythonParser = FALSE
    /\ calls = <<>>
    /\ pythonResult = None
    /\ extractionResult = None
    /\ pdfData = <<>>
    /\ priceText = ""
    /\ prices = None

NextYamamotoTable == TableParses

SpecYamamotoTable == InitYamamotoTable /\ [][NextYamamotoTable]_vars

\* the cell of the 0-based column of the data row, split on newline
linesOfCell(index) == cellLines(cellAt(tables[1].data[2], index))

\* the number of indices the loop visits
itemCount ==
    Min({Len(linesOfCell(0)), Len(linesOfCell(3)), Len(linesOfCell(4)), Len(linesOfCell(6))})

\* the indices whose code is of the IAF, FITT or YAM family and whose
\* quantity and unit price are numbers
emitting ==
    {i \in 1..itemCount :
        /\ isTableSku(trim(linesOfCell(0)[i]))
        /\ parseYamamotoQuantity(trim(linesOfCell(3)[i])) # null
        /\ PythonTableParser_parsePrice(trim(linesOfCell(4)[i]), TRUE) # null}

\* the k-th index of a set of indices, in ascending order
nthOf(S, k) == CHOOSE i \in S : Cardinality({j \in S : j <= i}) = k

\* line i of the description cell, '' beyond its last line
nameAt(i) == IF i <= Len(linesOfCell(1)) THEN trim(linesOfCell(1)[i]) ELSE ""

\* line i of the description cell, followed by line i + 1 when that line
\* holds 'tariff:', 'Custom' or 'custom'
nameWithTariffAt(i) ==
    IF \E w \in {"tariff:", "Custom", "custom"} : includes(nameAt(i + 1), w)
    THEN nameAt(i) \o " " \o nameAt(i + 1) ELSE nameAt(i)

\* the table interpreter has parsed a table of the degenerate shape
DegenerateParsed ==
    /\ Parsed
    /\ parser = None
    /\ Len(tables) = 1
    /\ isYamamotoFormat(tables[1].data)

\* the items are those of the emitting indices, in index order, each with
\* the code, the quantity and the unit price of its own index and with the
\* description describes gives for that index
zippedPositionally(describes(_)) ==
    /\ Len(Items) = Cardinality(emitting)
    /\ Len(Items) <= itemCount
    /\ \A k \in 1..Len(Items) :
           LET i == nthOf(emitting, k)
           IN  /\ Items[k].supplierSku = trim(linesOfCell(0)[i])
               /\ Items[k].quantity = parseYamamotoQuantity(trim(linesOfCell(3)[i]))
               /\ Items[k].unitPrice =
                      PythonTableParser_parsePrice(trim(linesOfCell(4)[i]), TRUE)
               /\ Items[k].description = Some(describes(i))

\* C23 as stated: for a table of the degenerate shape, at most min(#SKUs,
\* #quantities, #unit prices, #amounts) items are emitted in index order,
\* the item of index i takes its SKU, description, quantity and unit price
\* from line i of the respective cells, and an index whose SKU or numbers
\* do not pass is skipped without shifting the others.
C23_ItemTakesLineOfEveryCell == DegenerateParsed => zippedPositionally(nameAt)

\* C23: as above, except that the description of the item of index i is
\* line i of the description cell followed by line i + 1 of that cell when
\* that line holds 'tariff:', 'Custom' or 'custom'.
C23_ItemsAreZippedPositionally == DegenerateParsed => zippedPositionally(nameWithTariffAt)

\* an index was skipped and a later index emitted, from cells of unequal
\* numbers of lines
C23_Witness ==
    /\ DegenerateParsed
    /\ Len(linesOfCell(0)) > itemCount
    /\ \E k \in 1..Len(Items) : nthOf(emitting, k) > k


---------------------------------------------------------------------------
(* Claims about the shipping fee of the table interpreter *)

\* the rows of a table that are labelled as shipping: every row when the
\* headers name shipping, else the rows with a cell that names it
shippingLabelled(t) ==
    {r \in 1..Len(t.data) :
        \/ hasShippingKeyword(join(t.headers, " "))
        \/ isShippingRow(t.data[r])}

\* the values of the price-shaped cells of the shipping-labelled rows
shippingPrices(t) ==
    {PythonTableParser_parsePrice(trim(t.data[c[1]][c[2]]), FALSE) :
        c \in {d \in cellsOf(t) : /\ d[1] \in shippingLabelled(t)
                                  /\ isPriceLike(t.data[d[1]][d[2]])}}

\* C24: the shipping fee the table interpreter reports is 0 when no header,
\* row or cell carries a shipping keyword, and otherwise the value of a
\* price-shaped cell of a shipping-labelled row; never a number read from a
\* SKU, a quantity or the digits of another cell.
C24_FeeIsAPriceOfAShippingRow ==
    (Parsed /\ parser = None /\ Len(tables) = 1 /\ parseResult[1].success) =>
        IF shippingLabelled(tables[1]) = {} THEN isZero(ShippingFee)
        ELSE isZero(ShippingFee) \/ ShippingFee \in shippingPrices(tables[1])


---------------------------------------------------------------------------
(* BoleroParser on invoices with a 'Shipping & handling' line of 6,00 euro: *)
(* the amount comes as one element with the euro sign, as an element of    *)
(* its own after the sign, or in single characters, after a unit price or  *)
(* alone, behind a label in one element or in three; a line above the     *)
(* products may give the date of the invoice                               *)

ShippingLines ==
    {TextLine(0, <<<<20, "Shipping & handling">>, <<500, "€ 6,00">>>>),
     TextLine(0, <<<<20, "Shipping & handling">>, <<490, "€">>, <<500, "6,00">>>>),
     TextLine(0, <<<<20, "Shipping">>, <<60, "&">>, <<70, "handling">>,
                   <<390, "€">>, <<400, "5,00">>, <<490, "€">>, <<500, "6,00">>>>),
     TextLine(0, <<<<20, "Shipping & handling">>, <<490, "€">>, <<500, "6">>,
                   <<505, ",">>, <<510, "0">>, <<515, "0">>>>)}

ProductLines ==
    {TextLine(0, <<<<20, "Whey 2 kg">>, <<200, "BO-1">>, <<300, "2">>,
                   <<400, "10,00">>, <<500, "25,00">>>>),
     TextLine(0, <<<<20, "Bar">>, <<200, "4711">>, <<300, "3">>,
                   <<400, "2,50">>, <<500, "7,50">>>>)}

InvoiceDateLine == TextLine(0, <<<<20, "Invoice date: 15/03/2024">>>>)

ShippingDocuments ==
    WithHeader(BoleroHeader,
               {d \in Documents(ProductLines \cup ShippingLines \cup {InvoiceDateLine},
                                MaxRows) :
                   \E i \in 1..Len(d) : isShippingHandling(d[i])})

InitShipping ==
    /\ pc = "lines"
    /\ parser = Some("BoleroParser")
    /\ textLines \in ShippingDocuments
    /\ tables = <<>>
    /\ parseResult = None
    /\ result = None
    /\ scan = None
    /\ invoice = None
    /\ procs = <<>>
    /\ supplierName = ""
    /\ usePythonParser = FALSE
    /\ calls = <<>>
    /\ pythonResult = None
    /\ extractionResult = None
    /\ pdfData = <<>>
    /\ priceText = ""
    /\ prices = None

NextShipping == FindsHeader \/ ScansLine \/ Returns

SpecShipping == InitShipping /\ [][NextShipping]_vars

\* BoleroParser.parse has returned for a document with a shipping line
ShippingParsed ==
    /\ Parsed
    /\ parser = Some("BoleroParser")
    /\ firstLine(textLines, isShippingHandling) # 0

\* the lines of the document that are no shipping line
productLines == SelectSeq(textLines, LAMBDA l : ~isShippingHandling(l) /\ ~isBoleroHeader(l))

\* no line item stands for the shipping line: there are no more items than
\* product lines, and none has the amount of the shipping line or the code
\* of a service line
noShippingItem ==
    /\ Len(Items) <= Len(productLines)
    /\ \A i \in 1..Len(Items) :
           /\ Items[i].total # Number(FALSE, 6, 0)
           /\ Items[i].unitPrice # Number(FALSE, 6, 0)
           /\ Items[i].supplierSku # "-"

\* C25: a line with 'Shipping & handling' and the amount '€ 6,00' sets the
\* shipping fee of the result to 6.00 and gives no line item, however the
\* line is split into elements: sign and digits in one element, in separate
\* elements, or the number in single characters.
C25_ShippingLineSetsFee ==
    ShippingParsed =>
        /\ parseResult[1].success
        /\ ShippingFee = Number(FALSE, 6, 0)
        /\ noShippingItem


\* C26: every strategy scans all lines for an invoice date: when a line of
\* the document holds a date, the successful result has its invoiceDate
\* set.
C26_DateLineSetsInvoiceDate ==
    (/\ Parsed
     /\ parseResult[1].success
     /\ \E i \in 1..Len(textLines) : HasDate(textLines[i].text)) =>
        parseResult[1].data[1].invoiceMetadata.invoiceDate # None


---------------------------------------------------------------------------
(* Claims about the log entries processInvoicePdf writes *)

TerminalEntries ==
    {<<"PARSING", "ERROR">>, <<"PROCESSING", "SUCCESS">>, <<"PROCESSING", "ERROR">>}

\* the status a terminal entry reports
reportedStatus(entry) ==
    IF entry = <<"PROCESSING", "SUCCESS">> THEN "PENDING_REVIEW" ELSE "ERROR"

\* the positions of the terminal entries in the log
terminalAt(log) == {i \in 1..Len(log) : log[i] \in TerminalEntries}

\* the entry 'Starting PDF parsing' is in the log before the parser is
\* invoked
startPrecedesParse ==
    invoice.pc = "parse" \/ invoice.parseResult # None =>
        Len(invoice.log) >= 1 /\ invoice.log[1] = <<"PROCESSING", "INFO">>

\* PARSING/SUCCESS is written only after a successful parse, and before
\* every PARSING/WARNING
successPrecedesWarnings ==
    \A i \in 1..Len(invoice.log) :
        /\ invoice.log[i] = <<"PARSING", "SUCCESS">> =>
               /\ parsedWithData(invoice)
               /\ \A j \in 1..(i - 1) : invoice.log[j] # <<"PARSING", "WARNING">>
        /\ invoice.log[i] = <<"PARSING", "WARNING">> =>
               \E j \in 1..(i - 1) : invoice.log[j] = <<"PARSING", "SUCCESS">>

\* a terminal entry is the only one, the last of the log, and the status
\* it reports is the status of the invoice
terminalIsLast ==
    \A i \in terminalAt(invoice.log) :
        /\ terminalAt(invoice.log) = {i}
        /\ i = Len(invoice.log)
        /\ invoice.pc = "done"
        /\ invoice.row[1].status = reportedStatus(invoice.log[i])

\* the run passed getInvoiceById: the invoice was read and has a PDF
RunOnInvoice ==
    /\ pc = "invoice"
    /\ invoice.local # None
    /\ invoice.local[1].pdfFileName # None

---------------------------------------------------------------------------
(* A PDF of two pages through the Line Assembler and a strategy that reads *)
(* the lines below its header line: page 1 holds the header line and a     *)
(* product, page 2 a product whose y lies above, on, or below the lines of *)
(* page 1.  The assembler counts y and x in quarters of a unit, the        *)
(* strategies in tenths.                                                   *)

\* encodeURIComponent for the texts of the model
RECURSIVE encoded(_)
encoded(s) ==
    IF s = "" THEN ""
    ELSE (IF CharAt(s, 1) = " " THEN "%20" ELSE CharAt(s, 1)) \o encoded(SubSeq(s, 2, Len(s)))

\* the runs of a line of a page, at y quarters of a unit
runsOf(line, page, y) ==
    [i \in 1..Len(line.items) |->
        Run(page, (line.items[i].x * 2) \div 5, y, encoded(line.items[i].text))]

\* quarters of a unit in tenths of a unit
inTenths(lines) ==
    [l \in 1..Len(lines) |->
        [yPosition |-> (lines[l].yPosition * 5) \div 2,
         text |-> lines[l].text,
         items |-> [k \in 1..Len(lines[l].items) |->
                       [lines[l].items[k] EXCEPT !.x = (@ * 5) \div 2, !.y = (@ * 5) \div 2]]]]

\* the header line of page 1 is at y = 10.0 and its product at y = 20.0
PageOneYs == [header |-> 40, product |-> 80]

\* the y of the product of page 2: 8.0, 9.75, 10.0, 19.75 and 30.0
SecondPageYs == {32, 39, 40, 79, 120}

SecondPageProduct ==
    [AddictParser |-> TextLine(0, <<<<20, "P2">>, <<100, "Gum">>, <<300, "3">>,
                                    <<400, "3,33">>, <<500, "9,99">>>>),
     BoleroParser |-> TextLine(0, <<<<20, "Gum">>, <<200, "P2">>, <<300, "3">>,
                                    <<400, "3,33">>, <<500, "9,99">>>>)]

PagedDocuments ==
    [p \in {"AddictParser", "BoleroParser"} |->
        {runsOf(IF p = "AddictParser" THEN AddictHeader ELSE BoleroHeader, 1, PageOneYs.header)
         \o runsOf(first, 1, PageOneYs.product)
         \o runsOf(SecondPageProduct[p], 2, y) :
            first \in {r \in (IF p = "AddictParser" THEN AddictRows ELSE BoleroRows) :
                          Len(r.items) = 5},
            y \in SecondPageYs}]

InitPages ==
    /\ pc = "pdf"
    /\ \E p \in DOMAIN PagedDocuments :
           /\ parser = Some(p)
           /\ pdfData \in PagedDocuments[p]
    /\ supplierName = ""
    /\ usePythonParser = FALSE
    /\ calls = <<>>
    /\ pythonResult = None
    /\ extractionResult = None
    /\ parseResult = None
    /\ result = None
    /\ textLines = <<>>
    /\ priceText = ""
    /\ prices = None
    /\ scan = None
    /\ tables = <<>>
    /\ invoice = None
    /\ procs = <<>>

\* parseInvoiceFromPdf hands the lines of the assembler to the strategy
HandsLinesToParser ==
    /\ pc = "assembled"
    /\ parser # None
    /\ extractionResult[1].success
    /\ textLines' = inTenths(textLines)
    /\ pc' = "lines"
    /\ UNCHANGED <<supplierName, usePythonParser, calls, pythonResult,
                   extractionResult, parser, parseResult, result, pdfData, priceText,
                   prices, laterVars>>

NextPages == Assemble \/ HandsLinesToParser \/ FindsHeader \/ ScansLine \/ Returns

SpecPages == InitPages /\ [][NextPages]_vars

\* the runs of the PDF whose page is p
runsOfPage(p) == {i \in 1..Len(pdfData) : pdfData[i].page = p}

\* the line that holds the token of run i, 0 when there is none
lineOfRun(i) ==
    IF LinesHolding(TokenOf(pdfData[i])) = {} THEN 0
    ELSE CHOOSE l \in LinesHolding(TokenOf(pdfData[i])) : TRUE

\* runs whose y round to the same multiple of 0.5 are in the same line,
\* whatever their pages, and the lines are in ascending y
pagesAreMerged ==
    /\ \A i, j \in 1..Len(pdfData) :
           roundedY(pdfData[i].y) = roundedY(pdfData[j].y) =>
               lineOfRun(i) # 0 /\ lineOfRun(i) = lineOfRun(j)
    /\ \A l \in 1..(Len(textLines) - 1) :
           textLines[l].yPosition < textLines[l + 1].yPosition

\* the product of page 2 is not above the header line of page 1
secondPageBelowHeader ==
    \A i \in runsOfPage(2) : roundedY(pdfData[i].y) > roundedY(PageOneYs.header)

\* an item was built from the product of page 2
secondPageItem ==
    \E i \in 1..Len(Items) :
        \/ Items[i].supplierSku = "P2"
        \/ includes(descriptionOf(Items[i]), "P2")
        \/ includes(descriptionOf(Items[i]), "Gum")
        \/ Items[i].total = Number(FALSE, 9, 9900)

\* C28: the Line Assembler ignores the page of a run: runs of different
\* pages whose y round to the same multiple of 0.5 are in the same line,
\* the lines of all pages form one sequence ordered by y alone, and a line
\* of a later page whose y is not greater than the y of the header line is
\* skipped by a strategy that reads the lines below the header.
C28_PagesAreMergedByY ==
    /\ (pc = "assembled" /\ parser # None) => pagesAreMerged
    /\ (Parsed /\ pdfData # <<>> /\ ~secondPageBelowHeader) => ~secondPageItem

\* the product of page 2 lay on the y of the header line of page 1, shares
\* its line and gave no item, while the product of page 1 did
C28_Witness ==
    /\ Parsed
    /\ pdfData # <<>>
    /\ \E i \in runsOfPage(2) : pdfData[i].y = 39
    /\ \E l \in 1..Len(textLines) :
           /\ \E k \in 1..Len(textLines[l].items) : textLines[l].items[k].page = 1
           /\ \E k \in 1..Len(textLines[l].items) : textLines[l].items[k].page = 2
    /\ Len(Items) = 1
    /\ ~secondPageItem


---------------------------------------------------------------------------
(* reprocessInvoicePdf on an invoice that was processed before: its items  *)
(* are deleted, the start of the reprocessing is logged, and               *)
(* processInvoicePdf runs again, one action per await                      *)

\* the items an earlier run left in the database
OldItems ==
    <<[sku |-> "OLD-1", quantity |-> Number(FALSE, 1, 0), unitPrice |-> Number(FALSE, 1, 0),
       total |-> Number(FALSE, 1, 0), productId |-> None]>>

\* the invoices in the database before the reprocessing
ProcessedRows ==
    {[r EXCEPT !.status = s, !.items = Some(OldItems),
               !.shippingFee = Some(Number(FALSE, 0, 0))] :
        r \in {q \in InvoiceRows : q.pdfFileName # None},
        s \in {"PENDING_REVIEW", "ERROR"}}

InitReprocess ==
    /\ pc = "invoice"
    /\ supplierName = ""
    /\ usePythonParser = FALSE
    /\ calls = <<>>
    /\ pythonResult = None
    /\ extractionResult = None
    /\ parser = None
    /\ parseResult = None
    /\ result = None
    /\ pdfData = <<>>
    /\ textLines = <<>>
    /\ priceText = ""
    /\ prices = None
    /\ scan = None
    /\ tables = <<>>
    /\ procs = <<>>
    /\ \E row \in ProcessedRows :
         invoice = [pc |-> "deleteMany", row |-> Some(row), local |-> None,
                    log |-> <<>>, parseResult |-> None, mappedItems |-> None,
                    updated |-> FALSE, thrown |-> FALSE, rethrown |-> FALSE,
                    readFailed |-> FALSE]

\* lines 1471-1473: db.invoiceItem.deleteMany({ where: { invoiceId } })
\* settles; a rejection leaves reprocessInvoicePdf
DeletesItems ==
    /\ invoice.pc = "deleteMany"
    /\ \E resolves \in BOOLEAN :
         invoice' =
            IF ~resolves THEN rethrows(invoice)
            ELSE [invoice EXCEPT !.row[1].items = None, !.pc = "logReprocessing"]
    /\ UNCHANGED invoiceVars

\* line 1476: the log entry 'Reprocessing invoice PDF' settles; a rejection
\* leaves reprocessInvoicePdf, else processInvoicePdf is called
LogsReprocessing ==
    /\ invoice.pc = "logReprocessing"
    /\ \E resolves \in BOOLEAN :
         invoice' =
            IF ~resolves THEN rethrows(invoice)
            ELSE [logged(invoice, "PROCESSING", "INFO") EXCEPT !.pc = "getInvoiceById"]
    /\ UNCHANGED invoiceVars

NextReprocess == DeletesItems \/ LogsReprocessing \/ NextInvoice

SpecReprocess == InitReprocess /\ [][NextReprocess]_vars

\* reprocessInvoicePdf has called processInvoicePdf, which has ended
Reprocessed ==
    /\ pc = "invoice"
    /\ invoice.pc = "done"
    /\ Len(invoice.log) >= 1

\* the items of the invoice in the database
itemsInDatabase == IF invoice.row[1].items = None THEN <<>> ELSE invoice.row[1].items[1]

\* the run of processInvoicePdf parsed, mapped, updated and logged without
\* an exception
processingSucceeded == parsedWithData(invoice) /\ ~invoice.thrown

\* C29: reprocessInvoicePdf deletes the items of the invoice before it
\* parses again and does not restore them: when the new parse fails or
\* processing throws, the invoice ends with zero items and status ERROR;
\* when it succeeds, the invoice holds only the newly parsed items.
C29_ReprocessLeavesNewItemsOrNone ==
    /\ (pc = "invoice" /\ invoice.parseResult # None) =>
           \A i \in 1..Len(itemsInDatabase) : itemsInDatabase[i].sku # "OLD-1"
    /\ Reprocessed =>
           IF processingSucceeded
           THEN /\ invoice.row[1].items = invoice.mappedItems
                /\ invoice.row[1].status = "PENDING_REVIEW"
           ELSE /\ itemsInDatabase = <<>>
                /\ invoice.row[1].status = "ERROR"


---------------------------------------------------------------------------
(* The action of the upload route: the form is validated, the file saved,  *)
(* the invoice created with status PROCESSING, and processInvoicePdf       *)
(* awaited, one action per await                                           *)

MAX_FILE_SIZE == 10 * 1024 * 1024

\* a file of the form: its name, MIME type and size, and the PDF it holds;
\* saves tells whether mkdir, arrayBuffer and writeFile resolve
FormFile(name, type, size, content, saves) ==
    [name |-> name, type |-> type, size |-> size, content |-> content, saves |-> saves]

\* formData.get("invoice"): no file, an empty file, files validatePdfFile
\* rejects, a file that cannot be written, and PDFs of each kind
FormFiles ==
    {None,
     Some(FormFile("a.pdf", "application/pdf", 0, TableFile, TRUE)),
     Some(FormFile("a.txt", "text/plain", 10, TextFile, TRUE)),
     Some(FormFile("a.txt", "application/pdf", 10, TextFile, TRUE)),
     Some(FormFile("big.pdf", "application/pdf", MAX_FILE_SIZE + 1, TableFile, TRUE)),
     Some(FormFile("a.pdf", "application/pdf", 10, TableFile, FALSE)),
     Some(FormFile("a.PDF", "", 10, TableFile, TRUE)),
     Some(FormFile("b.pdf", "application/pdf", 10, TextFile, TRUE)),
     Some(FormFile("c.pdf", "application/pdf", 10, UnreadableFile, TRUE)),
     Some(FormFile("d.pdf", "application/pdf", 10, HeaderlessFile, TRUE))}

\* formData.get("supplier")
FormSuppliers == {"", "Bolero", "Addict"}

\* String.prototype.endsWith
endsWith(s, suffix) ==
    Len(s) >= Len(suffix) /\ SubSeq(s, Len(s) - Len(suffix) + 1, Len(s)) = suffix

\* validatePdfFile(file).valid
validatePdfFile(file) ==
    /\ includes(file.type, "pdf") \/ endsWith(toLowerCase(file.name), ".pdf")
    /\ file.size <= MAX_FILE_SIZE
    /\ endsWith(toLowerCase(file.name), ".pdf")

\* savePdfFile(file, invoiceId).success
savePdfFile(file) == validatePdfFile(file) /\ file.saves

InitUpload ==
    /\ pc = "invoice"
    /\ supplierName = ""
    /\ usePythonParser = FALSE
    /\ calls = <<>>
    /\ pythonResult = None
    /\ extractionResult = None
    /\ parser = None
    /\ parseResult = None
    /\ result = None
    /\ pdfData = <<>>
    /\ textLines = <<>>
    /\ priceText = ""
    /\ prices = None
    /\ scan = None
    /\ tables = <<>>
    /\ procs = <<>>
    /\ \E supplier \in FormSuppliers, file \in FormFiles :
         invoice = [pc |-> "validate", row |-> None, local |-> None,
                    log |-> <<>>, parseResult |-> None, mappedItems |-> None,
                    updated |-> FALSE, thrown |-> FALSE, rethrown |-> FALSE,
                    readFailed |-> FALSE,
                    form |-> [supplier |-> supplier, file |-> file],
                    response |-> None]

\* return json(...)
responds(inv, response) == [inv EXCEPT !.pc = "returned", !.response = Some(response)]

\* lines 65-71: the two checks of the form
Validates ==
    /\ invoice.pc = "validate"
    /\ invoice' =
          IF invoice.form.supplier = ""
          THEN responds(invoice, [status |-> 400, error |-> "Please select a supplier"])
          ELSE IF invoice.form.file = None \/ invoice.form.file[1].size = 0
          THEN responds(invoice, [status |-> 400, error |-> "Please select a PDF file"])
          ELSE [invoice EXCEPT !.pc = "savePdfFile"]
    /\ UNCHANGED invoiceVars

\* lines 78-82: savePdfFile settles (it catches whatever is thrown inside)
SavesPdfFile ==
    /\ invoice.pc = "savePdfFile"
    /\ invoice' =
          IF ~savePdfFile(invoice.form.file[1])
          THEN responds(invoice, [status |-> 400, error |-> "Failed to upload file"])
          ELSE [invoice EXCEPT !.pc = "createInvoice"]
    /\ UNCHANGED invoiceVars

\* lines 85-96: createInvoice settles; processInvoicePdf(invoice.id) is
\* called when it resolves, the outer catch answers when it rejects
CreatesInvoice ==
    /\ invoice.pc = "createInvoice"
    /\ \E resolves \in BOOLEAN :
         invoice' =
            IF ~resolves
            THEN responds(invoice, [status |-> 500,
                                    error |-> "Failed to process upload. Please try again."])
            ELSE [invoice EXCEPT
                     !.row = Some([supplierName |-> invoice.form.supplier,
                                   pdfFileName |-> Some(invoice.form.file[1].content),
                                   status |-> "PROCESSING",
                                   invoiceDate |-> "2024-01-01",
                                   shippingFee |-> Some(Number(FALSE, 0, 0)),
                                   items |-> None]),
                     !.pc = "getInvoiceById"]
    /\ UNCHANGED invoiceVars

\* lines 107-122: processInvoicePdf has resolved or rejected; the rejection
\* is caught and logged, and the action returns success
ReturnsSuccess ==
    /\ invoice.pc = "done"
    /\ invoice' = responds(invoice, [status |-> 200, success |-> TRUE, invoiceId |-> "inv"])
    /\ UNCHANGED invoiceVars

NextUpload == Validates \/ SavesPdfFile \/ CreatesInvoice \/ NextInvoice \/ ReturnsSuccess

SpecUpload == InitUpload /\ [][NextUpload]_vars

\* the upload action has returned
UploadReturned == pc = "invoice" /\ invoice.pc = "returned"

\* no createLogEntry and no updateInvoice of the run rejected: what was
\* thrown came from a query
writesSucceeded == ~invoice.rethrown /\ (invoice.thrown => invoice.readFailed)

\* the form has no supplier or no file, or savePdfFile rejects the file
validationFails ==
    \/ invoice.form.supplier = ""
    \/ invoice.form.file = None
    \/ invoice.form.file[1].size = 0
    \/ ~savePdfFile(invoice.form.file[1])

\* C30: once the file is saved and the invoice created with status
\* PROCESSING, the upload action awaits processInvoicePdf, swallows its
\* error and returns success with the invoice id; provided the database
\* writes succeed, the status of the invoice is PENDING_REVIEW or ERROR when
\* the action returns, never PROCESSING; and when validation fails no
\* invoice is created.
C30_UploadLeavesNoProcessing ==
    UploadReturned =>
        /\ invoice.row # None =>
               /\ invoice.response[1].status = 200
               /\ invoice.response[1].invoiceId = "inv"
               /\ writesSucceeded => invoice.row[1].status \in {"PENDING_REVIEW", "ERROR"}
        /\ validationFails => invoice.row = None /\ invoice.response[1].status = 400
===========================================================================
